---------------------------- MODULE Spec2Model ----------------------------
(***************************************************************************)
(* Model of the coordinate-geometry tools of tracing_shiva                 *)
(* (lib/src/tools): the fit transform shared by fix_json_alignment.py,     *)
(* fix_dotted_path_alignment.py and visualize_points.py, the vertical      *)
(* flip of extract_telugu.py, and the bounds computations.                 *)
(*                                                                         *)
(* Numbers.  The tools compute with Python floats.  The model computes     *)
(* with exact rationals <<numerator, denominator>> in lowest terms with a  *)
(* positive denominator, so every statement below is a statement about     *)
(* the arithmetic the code writes down, without binary rounding.           *)
(*                                                                         *)
(* Text.  A path string is a sequence of one-character strings, and the    *)
(* regular expressions, str.split, float() and the f-string formatting of  *)
(* the tools are modelled character by character.                          *)
(***************************************************************************)
EXTENDS Integers, Sequences, FiniteSets, TLC

VARIABLES
    \* ---- fit transform tools ----
    svg_bounds,         \* the bounding box handed to the fit computations
    view_size,          \* the target (display) size
    transform,          \* fix_json_alignment.calculate_flutter_transform's result
    dotted_transform,   \* fix_dotted_path_alignment.calculate_flutter_transform's result
    flutter_transform,  \* visualize_points.apply_flutter_transformation's result
    vertex,             \* visualize: [svg, flutter, back] of one transformed vertex
    stroke_point,       \* fix_dotted: [norm, svg] of one reverse-transformed stroke point
    projected,          \* [svg, norm, back]: svg_to_flutter_normalized, then reverse_transform_point
    \* ---- extract_telugu: vertical flip ----
    path_d,             \* the glyph's path string
    em,                 \* the font's units per em
    flipped,            \* transform_path(path_d, em)
    reflipped,          \* transform_path(flipped, em)
    \* ---- the three tools on one letter path ----
    svg_path,           \* the letter's path string (argv[2] of each tool)
    path_view_size,     \* the view size (argv[3])
    verified,           \* fix_json_alignment.verify_alignment: bounds, transform
    visualized,         \* visualize_points.visualize: bounds, transform
    converted,          \* fix_dotted_path_alignment.convert_json_to_svg_coords: bounds, transform
    json_commands,      \* get_svg_bounds: commands = parse_svg_path(svg_path)
    viz_commands,       \* svg_to_matplotlib_path: commands = parse_svg_path(svg_path)
    json_state,         \* get_svg_bounds after its loop: current point, all_x / all_y
    viz_state,          \* svg_to_matplotlib_path after its loop: current, start, vertices, codes
    \* ---- the curve samplers ----
    curve,              \* the samplers' arguments: points p0..p3 and num_samples
    quadratic_points,   \* sample_quadratic_bezier(p0, p1, p2, num_samples)
    cubic_points,       \* sample_cubic_bezier(p0, p1, p2, p3, num_samples)
    \* ---- get_svg_bounds on an outline and on the outline with one more command ----
    outline,            \* a path string
    appended,           \* the text of one more command
    outline_box,        \* get_svg_bounds(outline)
    grown_box,          \* get_svg_bounds(outline + " " + appended)
    \* ---- the stroke tools on one PointsInfo.json ----
    json_data,          \* the document: its encoding and its strokes' point entries
    stroke_view_size,   \* the view size
    use_curves,         \* generate_dotted_path.py without / with --lines
    all_strokes,        \* visualize_points.load_points_from_json's result
    dotted_path,        \* generate_dotted_path.generate_dotted_path_from_json's result
    svg_strokes,        \* fix_dotted_path_alignment.convert_json_to_svg_coords's result
    svg_dotted_path,    \* generate_dotted_path_from_svg_coords(svg_strokes)
    first_points        \* fix_json_alignment.verify_alignment: the strokes' first points

fitVars == <<svg_bounds, view_size, transform, dotted_transform, flutter_transform,
             vertex, stroke_point, projected>>

flipVars == <<path_d, em, flipped, reflipped>>

pathVars == <<svg_path, path_view_size, verified, visualized, converted,
              json_commands, viz_commands, json_state, viz_state>>

sampleVars == <<curve, quadratic_points, cubic_points>>

growVars == <<outline, appended, outline_box, grown_box>>

strokeVars == <<json_data, stroke_view_size, use_curves, all_strokes, dotted_path,
                svg_strokes, svg_dotted_path, first_points>>

\* the variables of the functions and tools other than the fit, flip and path tools
geomVars == <<sampleVars, growVars, strokeVars>>

vars == <<fitVars, flipVars, pathVars, geomVars>>

-----------------------------------------------------------------------------
(* Python values *)

\* an unset local / a value that was computed
None == <<>>
Some(v) == <<v>>
IsSome(o) == Len(o) = 1
Get(o) == o[1]

\* an exception that left the function
Raised(kind) == [raised |-> kind]
IsRaised(r) == "raised" \in DOMAIN r

-----------------------------------------------------------------------------
(* float arithmetic, exact *)

Abs(n) == IF n < 0 THEN -n ELSE n

RECURSIVE Gcd(_, _)
Gcd(a, b) == IF b = 0 THEN a ELSE Gcd(b, a % b)

\* n/d in lowest terms, d # 0
Rat(n, d) ==
    LET g == Gcd(Abs(n), Abs(d))
        s == IF d < 0 THEN -1 ELSE 1
    IN  <<(s * n) \div g, (s * d) \div g>>

FromInt(n) == <<n, 1>>

RNeg(a) == <<-a[1], a[2]>>

\* a + b
RAdd(a, b) ==
    LET g == Gcd(a[2], b[2])
    IN  Rat(a[1] * (b[2] \div g) + b[1] * (a[2] \div g), (a[2] \div g) * b[2])

\* a - b
RSub(a, b) == RAdd(a, RNeg(b))

\* a * b
RMul(a, b) ==
    LET g1 == Gcd(Abs(a[1]), b[2])
        g2 == Gcd(Abs(b[1]), a[2])
    IN  Rat((a[1] \div g1) * (b[1] \div g2), (a[2] \div g2) * (b[2] \div g1))

\* a / b, b # 0 (the callers test for 0: Python raises ZeroDivisionError there)
RDiv(a, b) == RMul(a, Rat(b[2], b[1]))

IsZero(a) == a[1] = 0

\* a < b, comparing integer parts first to keep the products small
RLt(a, b) ==
    LET qa == a[1] \div a[2]
        qb == b[1] \div b[2]
    IN  IF qa # qb THEN qa < qb
        ELSE (a[1] % a[2]) * b[2] < (b[1] % b[2]) * a[2]

RLe(a, b) == ~RLt(b, a)

\* min(a, b), max(a, b): Python returns the first argument on a tie
RMin(a, b) == IF RLt(b, a) THEN b ELSE a
RMax(a, b) == IF RLt(a, b) THEN b ELSE a

-----------------------------------------------------------------------------
(* the fit transform *)

Fit(scale, translate_x, translate_y) ==
    [scale |-> scale, translate_x |-> translate_x, translate_y |-> translate_y]

IsFit(r) == "scale" \in DOMAIN r

Bounds(left, top, width, height) ==
    [left |-> left, top |-> top, width |-> width, height |-> height]

\* a fit that fills the square along the smaller dimension (max for min)
calculate_flutter_transform_max(b, size) ==
    IF IsZero(b.width) \/ IsZero(b.height) THEN Raised("ZeroDivisionError")
    ELSE LET scale == RMax(RDiv(size, b.width), RDiv(size, b.height))
         IN  Fit(scale,
                 RSub(RDiv(RSub(size, RMul(b.width, scale)), FromInt(2)), RMul(b.left, scale)),
                 RSub(RDiv(RSub(size, RMul(b.height, scale)), FromInt(2)), RMul(b.top, scale)))

\* fix_json_alignment.py: calculate_flutter_transform
calculate_flutter_transform(b, size) ==
    LET original_width == b.width
        original_height == b.height
        original_left == b.left
        original_top == b.top
    IN  IF IsZero(original_width) THEN Raised("ZeroDivisionError")    \* view_size / original_width
        ELSE IF IsZero(original_height) THEN Raised("ZeroDivisionError")  \* view_size / original_height
        ELSE LET scale_x == RDiv(size, original_width)
                 scale_y == RDiv(size, original_height)
                 scale == RMin(scale_x, scale_y)
                 translate_x == RSub(RDiv(RSub(size, RMul(original_width, scale)), FromInt(2)),
                                     RMul(original_left, scale))
                 translate_y == RSub(RDiv(RSub(size, RMul(original_height, scale)), FromInt(2)),
                                     RMul(original_top, scale))
             IN  Fit(scale, translate_x, translate_y)

\* fix_dotted_path_alignment.py: calculate_flutter_transform
dotted_calculate_flutter_transform(b, size) ==
    LET original_width == b.width
        original_height == b.height
        original_left == b.left
        original_top == b.top
    IN  IF IsZero(original_width) THEN Raised("ZeroDivisionError")
        ELSE IF IsZero(original_height) THEN Raised("ZeroDivisionError")
        ELSE LET scale_x == RDiv(size, original_width)
                 scale_y == RDiv(size, original_height)
                 scale == RMin(scale_x, scale_y)
                 translate_x == RSub(RDiv(RSub(size, RMul(original_width, scale)), FromInt(2)),
                                     RMul(original_left, scale))
                 translate_y == RSub(RDiv(RSub(size, RMul(original_height, scale)), FromInt(2)),
                                     RMul(original_top, scale))
             IN  Fit(scale, translate_x, translate_y)

\* visualize_points.py: apply_flutter_transformation
apply_flutter_transformation(path_bounds, size) ==
    LET original_width == path_bounds.width
        original_height == path_bounds.height
        original_left == path_bounds.left
        original_top == path_bounds.top
    IN  IF IsZero(original_width) THEN Raised("ZeroDivisionError")
        ELSE IF IsZero(original_height) THEN Raised("ZeroDivisionError")
        ELSE LET scale_x == RDiv(size, original_width)
                 scale_y == RDiv(size, original_height)
                 scale == RMin(scale_x, scale_y)
                 translate_x == RSub(RDiv(RSub(size, RMul(original_width, scale)), FromInt(2)),
                                     RMul(original_left, scale))
                 translate_y == RSub(RDiv(RSub(size, RMul(original_height, scale)), FromInt(2)),
                                     RMul(original_top, scale))
             IN  Fit(scale, translate_x, translate_y)

\* visualize_points.py: transform_point_to_flutter_space
transform_point_to_flutter_space(x, y, t) ==
    LET flutter_x == RAdd(RMul(x, t.scale), t.translate_x)
        flutter_y == RAdd(RMul(y, t.scale), t.translate_y)
    IN  <<flutter_x, flutter_y>>

\* a reverse transform that adds the translation back instead of removing it
transform_point_from_flutter_space_plus(flutter_x, flutter_y, t) ==
    <<RDiv(RAdd(flutter_x, t.translate_x), t.scale),
      RDiv(RAdd(flutter_y, t.translate_y), t.scale)>>

\* visualize_points.py: transform_point_from_flutter_space
transform_point_from_flutter_space(flutter_x, flutter_y, t) ==
    LET svg_x == RDiv(RSub(flutter_x, t.translate_x), t.scale)
        svg_y == RDiv(RSub(flutter_y, t.translate_y), t.scale)
    IN  <<svg_x, svg_y>>

\* a reverse transform that forgets to scale the normalized point up to the view
reverse_transform_point_unscaled(normalized_x, normalized_y, t, size) ==
    <<RDiv(RSub(normalized_x, t.translate_x), t.scale),
      RDiv(RSub(normalized_y, t.translate_y), t.scale)>>

\* fix_dotted_path_alignment.py: reverse_transform_point
reverse_transform_point(normalized_x, normalized_y, t, size) ==
    LET flutter_x == RMul(normalized_x, size)
        flutter_y == RMul(normalized_y, size)
        svg_x == RDiv(RSub(flutter_x, t.translate_x), t.scale)
        svg_y == RDiv(RSub(flutter_y, t.translate_y), t.scale)
    IN  <<svg_x, svg_y>>

\* fix_json_alignment.py: svg_to_flutter_normalized
svg_to_flutter_normalized(svg_x, svg_y, t, size) ==
    LET flutter_x == RAdd(RMul(svg_x, t.scale), t.translate_x)
        flutter_y == RAdd(RMul(svg_y, t.scale), t.translate_y)
        normalized_x == RDiv(flutter_x, size)
        normalized_y == RDiv(flutter_y, size)
        \* Clamp to 0-1 range
        clamped_x == RMax(FromInt(0), RMin(FromInt(1), normalized_x))
        clamped_y == RMax(FromInt(0), RMin(FromInt(1), normalized_y))
    IN  <<clamped_x, clamped_y>>

-----------------------------------------------------------------------------
(* inputs of the fit tools *)

\* widths and heights run over multiples of 100 up to 100 * MaxDim
MaxDim == 2

Lefts == {-50, 0, 10}
Dims == {100 * k : k \in 0..MaxDim} \cup {30}

\* the view sizes the tools default to: 300.0 (fix_*), 1000.0 (visualize)
ViewSizes == {300, 1000}

BoundingBoxes ==
    {Bounds(FromInt(l), FromInt(t), FromInt(w), FromInt(h)) :
        l \in Lefts, t \in Lefts, w \in Dims, h \in Dims}

\* outline-space points, inside and outside the boxes
SvgPoints ==
    {<<FromInt(0), FromInt(0)>>, <<FromInt(100), FromInt(200)>>,
     <<FromInt(200), FromInt(0)>>, <<FromInt(-50), FromInt(40)>>,
     <<Rat(1, 2), Rat(31, 3)>>}

\* normalized stroke points, in and out of [0, 1]
StrokePoints ==
    {<<Rat(1, 2), Rat(1, 2)>>, <<FromInt(0), FromInt(1)>>,
     <<Rat(1, 3), Rat(7, 10)>>, <<Rat(5, 4), Rat(-1, 4)>>}

\* the path tools have not been started
PathIdle ==
    /\ svg_path = <<>> /\ path_view_size = FromInt(0)
    /\ verified = None /\ visualized = None /\ converted = None
    /\ json_commands = None /\ viz_commands = None
    /\ json_state = None /\ viz_state = None

\* no curve has been sampled
SampleIdle ==
    /\ curve = [p0 |-> <<0, 0>>, p1 |-> <<0, 0>>, p2 |-> <<0, 0>>, p3 |-> <<0, 0>>,
                num_samples |-> 0]
    /\ quadratic_points = None /\ cubic_points = None

\* no outline has been measured
GrowIdle == outline = <<>> /\ appended = <<>> /\ outline_box = None /\ grown_box = None

\* no stroke file has been read
StrokeIdle ==
    /\ json_data = [form |-> "record", strokes |-> <<>>]
    /\ stroke_view_size = <<0, 1>>
    /\ use_curves = TRUE
    /\ all_strokes = None /\ dotted_path = None /\ svg_strokes = None
    /\ svg_dotted_path = None /\ first_points = None

GeomIdle == SampleIdle /\ GrowIdle /\ StrokeIdle

\* no fit has been computed
FitIdle ==
    /\ svg_bounds = [left |-> <<0, 1>>, top |-> <<0, 1>>, width |-> <<0, 1>>, height |-> <<0, 1>>]
    /\ view_size = <<0, 1>>
    /\ transform = None /\ dotted_transform = None /\ flutter_transform = None
    /\ vertex = None /\ stroke_point = None /\ projected = None

\* the flip tool has not been started
FlipIdle == path_d = <<>> /\ em = FromInt(0) /\ flipped = None /\ reflipped = None

NoPointFollowed == vertex = None /\ stroke_point = None /\ projected = None

FitInit ==
    /\ svg_bounds \in BoundingBoxes
    /\ view_size \in {FromInt(v) : v \in ViewSizes}
    /\ transform = None
    /\ dotted_transform = None
    /\ flutter_transform = None
    /\ vertex = None
    /\ stroke_point = None
    /\ projected = None
    /\ FlipIdle
    /\ PathIdle
    /\ GeomIdle

\* fix_json_alignment.verify_alignment: transform = calculate_flutter_transform(...)
CalculateFlutterTransform ==
    /\ transform = None
    /\ transform' = Some(calculate_flutter_transform(svg_bounds, view_size))
    /\ UNCHANGED <<svg_bounds, view_size, dotted_transform, flutter_transform,
                   vertex, stroke_point, projected>>
    /\ UNCHANGED <<flipVars, pathVars, geomVars>>

\* fix_dotted_path_alignment.convert_json_to_svg_coords: transform = calculate_flutter_transform(...)
DottedCalculateFlutterTransform ==
    /\ dotted_transform = None
    /\ dotted_transform' = Some(dotted_calculate_flutter_transform(svg_bounds, view_size))
    /\ UNCHANGED <<svg_bounds, view_size, transform, flutter_transform,
                   vertex, stroke_point, projected>>
    /\ UNCHANGED <<flipVars, pathVars, geomVars>>

\* visualize_points.visualize: flutter_transform = apply_flutter_transformation(...)
ApplyFlutterTransformation ==
    /\ flutter_transform = None
    /\ flutter_transform' = Some(apply_flutter_transformation(svg_bounds, view_size))
    /\ UNCHANGED <<svg_bounds, view_size, transform, dotted_transform,
                   vertex, stroke_point, projected>>
    /\ UNCHANGED <<flipVars, pathVars, geomVars>>

\* visualize: one vertex of the outline goes to Flutter space
TransformVertex ==
    /\ NoPointFollowed
    /\ IsSome(flutter_transform) /\ IsFit(Get(flutter_transform))
    /\ \E p \in SvgPoints :
         vertex' = Some([svg |-> p,
                         flutter |-> transform_point_to_flutter_space(p[1], p[2], Get(flutter_transform)),
                         back |-> None])
    /\ UNCHANGED <<svg_bounds, view_size, transform, dotted_transform, flutter_transform,
                   stroke_point, projected>>
    /\ UNCHANGED <<flipVars, pathVars, geomVars>>

\* visualize: the Flutter-space vertex goes back to outline space
TransformVertexBack ==
    /\ IsSome(vertex) /\ Get(vertex).back = None
    /\ LET v == Get(vertex)
       IN  vertex' = Some([v EXCEPT !.back =
                Some(transform_point_from_flutter_space(v.flutter[1], v.flutter[2],
                                                        Get(flutter_transform)))])
    /\ UNCHANGED <<svg_bounds, view_size, transform, dotted_transform, flutter_transform,
                   stroke_point, projected>>
    /\ UNCHANGED <<flipVars, pathVars, geomVars>>

\* fix_dotted: one normalized stroke point goes to outline space
ReverseStrokePoint ==
    /\ NoPointFollowed
    /\ IsSome(dotted_transform) /\ IsFit(Get(dotted_transform))
    /\ \E n \in StrokePoints :
         stroke_point' = Some([norm |-> n,
                               svg |-> reverse_transform_point(n[1], n[2], Get(dotted_transform),
                                                               view_size)])
    /\ UNCHANGED <<svg_bounds, view_size, transform, dotted_transform, flutter_transform,
                   vertex, projected>>
    /\ UNCHANGED <<flipVars, pathVars, geomVars>>

\* fix_json: one outline point goes to normalized display space
ProjectToDisplay ==
    /\ NoPointFollowed
    /\ IsSome(transform) /\ IsFit(Get(transform))
    /\ \E p \in SvgPoints :
         projected' = Some([svg |-> p,
                            norm |-> svg_to_flutter_normalized(p[1], p[2], Get(transform), view_size),
                            back |-> None])
    /\ UNCHANGED <<svg_bounds, view_size, transform, dotted_transform, flutter_transform,
                   vertex, stroke_point>>
    /\ UNCHANGED <<flipVars, pathVars, geomVars>>

\* fix_dotted: the projected point comes back to outline space
ProjectBack ==
    /\ IsSome(projected) /\ Get(projected).back = None
    /\ IsSome(dotted_transform) /\ IsFit(Get(dotted_transform))
    /\ LET q == Get(projected)
       IN  projected' = Some([q EXCEPT !.back =
                Some(reverse_transform_point(q.norm[1], q.norm[2], Get(dotted_transform),
                                             view_size))])
    /\ UNCHANGED <<svg_bounds, view_size, transform, dotted_transform, flutter_transform,
                   vertex, stroke_point>>
    /\ UNCHANGED <<flipVars, pathVars, geomVars>>

FitNext ==
    \/ CalculateFlutterTransform
    \/ DottedCalculateFlutterTransform
    \/ ApplyFlutterTransformation
    \/ TransformVertex
    \/ TransformVertexBack
    \/ ReverseStrokePoint
    \/ ProjectToDisplay
    \/ ProjectBack

SpecFit == FitInit /\ [][FitNext]_vars

-----------------------------------------------------------------------------
(* claims about the fit transform, checked under SpecFit *)

SetTransforms == {r \in {transform, dotted_transform, flutter_transform} : IsSome(r)}
NonDegenerate == ~IsZero(svg_bounds.width) /\ ~IsZero(svg_bounds.height)
Scenario1 ==
    /\ svg_bounds = Bounds(FromInt(0), FromInt(0), FromInt(100), FromInt(200))
    /\ view_size = FromInt(300)

\* C1: Round trip of the fit transform.  For every point p and every fit
\* computed from a box with width > 0 and height > 0 and a positive target
\* size, the forward transform (x*scale + translate) followed by the reverse
\* transform ((x' - translate)/scale) returns p on both coordinates: with
\* visualize's transform_point_from_flutter_space, and with fix_dotted's
\* reverse_transform_point applied to the same display point, normalized.
C1_RoundTrip ==
    (IsSome(vertex) /\ IsSome(Get(vertex).back)) =>
        LET v == Get(vertex)
        IN  /\ Get(v.back) = v.svg
            /\ (IsSome(dotted_transform) /\ IsFit(Get(dotted_transform))) =>
                 reverse_transform_point(RDiv(v.flutter[1], view_size),
                                         RDiv(v.flutter[2], view_size),
                                         Get(dotted_transform), view_size) = v.svg

C1_Witness ==
    /\ IsSome(vertex) /\ IsSome(Get(vertex).back)
    /\ IsSome(dotted_transform)
    /\ Get(vertex).svg = <<Rat(1, 2), Rat(31, 3)>>
    /\ Get(vertex).flutter # Get(vertex).svg
    /\ Get(flutter_transform) = Fit(FromInt(5), FromInt(675), FromInt(-50))

\* the fit of section 4.4, stated as relations: the scale is one of the two
\* ratios and no larger than either, and each translation centres its axis
FitMatches(f, b, size) ==
    /\ IsFit(f)
    /\ f.scale \in {RDiv(size, b.width), RDiv(size, b.height)}
    /\ RLe(f.scale, RDiv(size, b.width))
    /\ RLe(f.scale, RDiv(size, b.height))
    /\ RAdd(RMul(FromInt(2), RAdd(f.translate_x, RMul(b.left, f.scale))),
            RMul(b.width, f.scale)) = size
    /\ RAdd(RMul(FromInt(2), RAdd(f.translate_y, RMul(b.top, f.scale))),
            RMul(b.height, f.scale)) = size

\* C2: The fit computed from a box {left, top, width, height} and a target
\* size is scale = min(target/width, target/height), translateX = (target -
\* width*scale)/2 - left*scale, translateY = (target - height*scale)/2 -
\* top*scale for every non-degenerate box; box {0,0,100,200} with target 300
\* gives scale 1.5, translateX 75, translateY 0; and the three copies of the
\* function return the same result for the same inputs.
C2_FitFormula ==
    /\ NonDegenerate =>
         \A r \in SetTransforms : FitMatches(Get(r), svg_bounds, view_size)
    /\ Scenario1 =>
         \A r \in SetTransforms : Get(r) = Fit(Rat(3, 2), FromInt(75), FromInt(0))
    /\ Cardinality(SetTransforms) <= 1

C2_Witness ==
    /\ Scenario1
    /\ IsSome(transform) /\ IsSome(dotted_transform) /\ IsSome(flutter_transform)
    /\ Get(flutter_transform).scale = Rat(3, 2)

\* C4 (as claimed): computing a fit from a box whose width or height is 0
\* fails with a DegenerateBounds error, a typed failure surfaced to the
\* caller; it never divides by zero and never returns a fit.
C4_DegenerateBoundsError ==
    ~NonDegenerate =>
        \A r \in SetTransforms : Get(r) = Raised("DegenerateBounds")

\* the image of the box under fit f
BoxImage(f, b) ==
    [lo |-> transform_point_to_flutter_space(b.left, b.top, f),
     hi |-> transform_point_to_flutter_space(RAdd(b.left, b.width), RAdd(b.top, b.height), f)]

FitWithinSquare(f, b, size) ==
    LET im == BoxImage(f, b)
    IN  /\ RLt(FromInt(0), f.scale)
        /\ \A i \in 1..2 :
             /\ RLe(FromInt(0), im.lo[i]) /\ RLe(im.lo[i], im.hi[i]) /\ RLe(im.hi[i], size)
             \* equal margins on the two sides
             /\ im.lo[i] = RSub(size, im.hi[i])
        \* the larger dimension spans the square
        /\ RLe(b.height, b.width) => (im.lo[1] = FromInt(0) /\ im.hi[1] = size)
        /\ RLe(b.width, b.height) => (im.lo[2] = FromInt(0) /\ im.hi[2] = size)

\* C5: The fit is a uniform fit-within-square-then-center transform.  For
\* every non-degenerate box and positive target size the one scale of the
\* fit is positive, the image of the box lies inside [0, target] x [0,
\* target], spans exactly [0, target] along the box's larger dimension, and
\* has equal margins on the two sides of the other dimension.
C5_UniformFitWithinSquare ==
    \A r \in {transform, flutter_transform} :
        (IsSome(r) /\ NonDegenerate) => FitWithinSquare(Get(r), svg_bounds, view_size)

C5_Witness ==
    /\ IsSome(transform) /\ IsSome(flutter_transform) /\ NonDegenerate
    /\ svg_bounds.width = FromInt(30) /\ svg_bounds.height = FromInt(200)
    /\ svg_bounds.left = FromInt(-50)
    /\ RLt(FromInt(0), BoxImage(Get(transform), svg_bounds).lo[1])

Scenario3 ==
    /\ IsSome(stroke_point)
    /\ Get(stroke_point).norm = <<Rat(1, 2), Rat(1, 2)>>
    /\ Get(dotted_transform) = Fit(Rat(3, 2), FromInt(75), FromInt(0))
    /\ view_size = FromInt(300)

\* C6 (as claimed): the normalized stroke point (0.5, 0.5) under fit {scale
\* 1.5, translateX 75, translateY 0} and display size 300 is projected by
\* reverse_transform_point to the outline-space point (150, 50).
C6_Scenario3_AsClaimed ==
    Scenario3 => Get(stroke_point).svg = <<FromInt(150), FromInt(50)>>

\* C6 (amended): the normalized stroke point (0.5, 0.5) under fit {scale
\* 1.5, translateX 75, translateY 0} and display size 300 is projected by
\* reverse_transform_point to the outline-space point (50, 100):
\* x = (0.5*300 - 75)/1.5, y = (0.5*300 - 0)/1.5.
C6_Scenario3 ==
    Scenario3 => Get(stroke_point).svg = <<FromInt(50), FromInt(100)>>

C6_Witness == Scenario3 /\ Scenario1

\* C7 (as claimed): projection between outline space and normalized display
\* space never clamps.  For every outline-space point, including points
\* whose display image falls outside [0, 1], svg_to_flutter_normalized
\* followed by reverse_transform_point with the same fit and view size
\* returns the original point.
C7_ProjectionRoundTrip ==
    (IsSome(projected) /\ IsSome(Get(projected).back) /\ transform = dotted_transform) =>
        Get(Get(projected).back) = Get(projected).svg

-----------------------------------------------------------------------------
(* text: characters, the path regular expression, split, float, formatting *)

DigitChars == <<"0", "1", "2", "3", "4", "5", "6", "7", "8", "9">>
Digits == {DigitChars[i] : i \in 1..10}
DigitVal(c) == (CHOOSE i \in 1..10 : DigitChars[i] = c) - 1

\* [MmLlHhVvCcSsQqTtAaZz]
CommandLetters ==
    {"M", "m", "L", "l", "H", "h", "V", "v", "C", "c", "S", "s",
     "Q", "q", "T", "t", "A", "a", "Z", "z"}

\* [-\d.eE, ]
CoordChars == Digits \cup {"-", ".", "e", "E", ",", " "}

\* \s, and what str.split() and str.strip() take for white space
WhiteSpace == {" ", "\t", "\n", "\r"}

\* str.upper() on a command letter
Upper(c) ==
    CASE c = "m" -> "M" [] c = "l" -> "L" [] c = "h" -> "H" [] c = "v" -> "V"
      [] c = "c" -> "C" [] c = "s" -> "S" [] c = "q" -> "Q" [] c = "t" -> "T"
      [] c = "a" -> "A" [] c = "z" -> "Z" [] OTHER -> c

\* the first position from i on whose character is outside class
RECURSIVE SkipWhile(_, _, _)
SkipWhile(s, i, class) ==
    IF i <= Len(s) /\ s[i] \in class THEN SkipWhile(s, i + 1, class) ELSE i

\* the first position from i on whose character is inside class
RECURSIVE SkipUntil(_, _, _)
SkipUntil(s, i, class) ==
    IF i <= Len(s) /\ s[i] \notin class THEN SkipUntil(s, i + 1, class) ELSE i

\* re.findall(r'([MmLlHhVvCcSsQqTtAaZz])\s*([-\d.eE, ]+)?', s) from position i:
\* the next command letter, the white space after it, and the longest run of
\* coordinate characters (the empty string when there is none)
RECURSIVE FindAll(_, _)
FindAll(s, i) ==
    IF i > Len(s) THEN <<>>
    ELSE IF s[i] \notin CommandLetters THEN FindAll(s, i + 1)
    ELSE LET j == SkipWhile(s, i + 1, WhiteSpace)
             k == SkipWhile(s, j, CoordChars)
         IN  <<[cmd |-> s[i], coords |-> SubSeq(s, j, k - 1)]>> \o FindAll(s, k)

\* coords.replace(',', ' ')
ReplaceCommas(s) == [i \in 1..Len(s) |-> IF s[i] = "," THEN " " ELSE s[i]]

\* str.split(): the maximal runs of non-space characters
RECURSIVE Split(_, _)
Split(s, i) ==
    IF i > Len(s) THEN <<>>
    ELSE IF s[i] \in WhiteSpace THEN Split(s, i + 1)
    ELSE LET j == SkipUntil(s, i, WhiteSpace)
         IN  <<SubSeq(s, i, j - 1)>> \o Split(s, j)

\* not coords.strip()
IsBlank(s) == \A i \in 1..Len(s) : s[i] \in WhiteSpace

\* the number written by the digits s[i..j-1] (0 for no digit)
RECURSIVE DigitsValue(_, _, _)
DigitsValue(s, i, j) ==
    IF j <= i THEN 0 ELSE 10 * DigitsValue(s, i, j - 1) + DigitVal(s[j - 1])

RECURSIVE Pow10(_)
Pow10(k) == IF k = 0 THEN 1 ELSE 10 * Pow10(k - 1)

\* float(tok) for a token of coordinate characters: Some(value), or None where
\* Python raises ValueError.  The accepted tokens are
\*   -? (digits [. digits?] | . digits) ([eE] -? digits)?
\* i0: after the sign; i1: after the integer digits; f0, i2: the fraction
\* digits; j0, j1: the exponent digits (j0 = j1 = i2 without exponent)
FloatValue(tok, i0, i1, f0, i2, expNeg, j0, j1) ==
    LET mantissa == DigitsValue(tok, i0, i1) * Pow10(i2 - f0) + DigitsValue(tok, f0, i2)
        exponent == (IF expNeg THEN -1 ELSE 1) * DigitsValue(tok, j0, j1) - (i2 - f0)
        magnitude == IF exponent >= 0 THEN Rat(mantissa * Pow10(exponent), 1)
                     ELSE Rat(mantissa, Pow10(-exponent))
    IN  IF i0 = 2 THEN RNeg(magnitude) ELSE magnitude

FloatExponent(tok, i0, i1, f0, i2) ==
    IF i2 = Len(tok) + 1 THEN Some(FloatValue(tok, i0, i1, f0, i2, FALSE, i2, i2))
    ELSE IF tok[i2] \notin {"e", "E"} THEN None
    ELSE LET expNeg == i2 + 1 <= Len(tok) /\ tok[i2 + 1] = "-"
             j0 == IF expNeg THEN i2 + 2 ELSE i2 + 1
             j1 == SkipWhile(tok, j0, Digits)
         IN  IF j1 > j0 /\ j1 = Len(tok) + 1
             THEN Some(FloatValue(tok, i0, i1, f0, i2, expNeg, j0, j1))
             ELSE None

FloatFraction(tok, i0, i1) ==
    LET hasDot == i1 <= Len(tok) /\ tok[i1] = "."
        f0 == IF hasDot THEN i1 + 1 ELSE i1
        i2 == IF hasDot THEN SkipWhile(tok, f0, Digits) ELSE i1
    IN  IF (i1 - i0) + (i2 - f0) >= 1 THEN FloatExponent(tok, i0, i1, f0, i2) ELSE None

FloatDigits(tok, i0) == FloatFraction(tok, i0, SkipWhile(tok, i0, Digits))

ParseFloat(tok) == FloatDigits(tok, IF Len(tok) >= 1 /\ tok[1] = "-" THEN 2 ELSE 1)

\* the loop "for num_str in coords_clean.split(): try: nums.append(float(num_str))
\* except ValueError: continue" over the tokens from position i
RECURSIVE ParseNums(_, _)
ParseNums(toks, i) ==
    IF i > Len(toks) THEN <<>>
    ELSE LET v == ParseFloat(toks[i])
         IN  (IF IsSome(v) THEN <<Get(v)>> ELSE <<>>) \o ParseNums(toks, i + 1)

\* the numbers of a coordinate string
NumsOf(coords) == ParseNums(Split(ReplaceCommas(coords), 1), 1)

\* the decimal digits of k >= 0
RECURSIVE NatChars(_)
NatChars(k) ==
    IF k < 10 THEN <<DigitChars[k + 1]>>
    ELSE NatChars(k \div 10) \o <<DigitChars[(k % 10) + 1]>>

\* an integer written with a decimal place
FormatInt_decimal(k) ==
    (IF k < 0 THEN <<"-">> \o NatChars(-k) ELSE NatChars(k)) \o <<".", "0">>

\* f"{int(n)}"
FormatInt(k) == IF k < 0 THEN <<"-">> \o NatChars(-k) ELSE NatChars(k)

\* f"{n:.1f}": one decimal place.  A value exactly half way between two
\* one-decimal numbers is rounded to the even one, which is what Python does
\* when the float holds the value exactly (x.25, x.75); for other such values
\* Python rounds by the float's binary neighbour.
FormatFixed1(n) ==
    LET tenths == RMul(<<Abs(n[1]), n[2]>>, FromInt(10))
        fl == tenths[1] \div tenths[2]
        rem == tenths[1] % tenths[2]
        r == IF 2 * rem > tenths[2] THEN fl + 1
             ELSE IF 2 * rem < tenths[2] THEN fl
             ELSE IF fl % 2 = 0 THEN fl ELSE fl + 1
    IN  (IF n[1] < 0 THEN <<"-">> ELSE <<>>)
            \o NatChars(r \div 10) \o <<".">> \o <<DigitChars[(r % 10) + 1]>>

\* a formatting that always writes the decimal place
FormatNum_fixed(n) == FormatFixed1(n)

\* f"{n:.1f}" if n != int(n) else f"{int(n)}"
FormatNum(n) == IF n[2] # 1 THEN FormatFixed1(n) ELSE FormatInt(n[1])

\* sep.join(parts)
RECURSIVE Join(_, _)
Join(parts, sep) ==
    IF Len(parts) = 0 THEN <<>>
    ELSE IF Len(parts) = 1 THEN parts[1]
    ELSE parts[1] \o sep \o Join(Tail(parts), sep)

-----------------------------------------------------------------------------
(* extract_telugu.py: transform_path *)

\* a flip about the wrong side: y - em
FlipY_reversed(axis, y) == RSub(y, axis)

\* new_y = em - y
FlipY(axis, y) == RSub(axis, y)

\* an arc branch that flips the endpoint and leaves the sweep flag alone
RECURSIVE ArcNums_sweep_kept(_, _, _)
ArcNums_sweep_kept(nums, i, axis) ==
    IF i > Len(nums) THEN <<>>
    ELSE IF i + 6 <= Len(nums)
    THEN <<nums[i], nums[i + 1], nums[i + 2], nums[i + 3],
           nums[i + 4], nums[i + 5], FlipY(axis, nums[i + 6])>>
             \o ArcNums_sweep_kept(nums, i + 7, axis)
    ELSE SubSeq(nums, i, Len(nums))

\* the A branch: "while i < len(nums)" from 1-based position i
RECURSIVE ArcNums(_, _, _)
ArcNums(nums, i, axis) ==
    IF i > Len(nums) THEN <<>>
    ELSE IF i + 6 <= Len(nums)          \* full arc command
    THEN <<nums[i], nums[i + 1], nums[i + 2], nums[i + 3],
           RSub(FromInt(1), nums[i + 4]), nums[i + 5], FlipY(axis, nums[i + 6])>>
             \o ArcNums(nums, i + 7, axis)
    ELSE SubSeq(nums, i, Len(nums))     \* incomplete arc, just copy remaining

\* the last branch: "while i + size - 1 < len(nums)" over groups of size
\* numbers, the even places of a group flipped, then "if i < len(nums):
\* transformed_nums.extend(nums[i:])"
RECURSIVE GroupNums(_, _, _, _)
GroupNums(nums, i, size, axis) ==
    IF i + size - 1 <= Len(nums)
    THEN [k \in 1..size |-> IF k % 2 = 0 THEN FlipY(axis, nums[i + k - 1])
                            ELSE nums[i + k - 1]]
             \o GroupNums(nums, i + size, size, axis)
    ELSE SubSeq(nums, i, Len(nums))

\* a transformation without the H and V branches: both fall to the pair branch
TransformNums_pairs_only(cmd_upper, nums, axis) ==
    IF cmd_upper = "A" THEN ArcNums(nums, 1, axis)
    ELSE IF cmd_upper \in {"C", "S"} THEN GroupNums(nums, 1, 6, axis)
    ELSE IF cmd_upper \in {"Q", "T"} THEN GroupNums(nums, 1, 4, axis)
    ELSE GroupNums(nums, 1, 2, axis)

\* "Transform coordinates based on command type"
TransformNums(cmd_upper, nums, axis) ==
    IF cmd_upper = "H" THEN nums
    ELSE IF cmd_upper = "V" THEN [k \in 1..Len(nums) |-> FlipY(axis, nums[k])]
    ELSE IF cmd_upper = "A" THEN ArcNums(nums, 1, axis)
    ELSE IF cmd_upper \in {"C", "S"} THEN GroupNums(nums, 1, 6, axis)
    ELSE IF cmd_upper \in {"Q", "T"} THEN GroupNums(nums, 1, 4, axis)
    ELSE GroupNums(nums, 1, 2, axis)

\* one iteration of "for cmd, coords in commands": the piece appended to transformed
TransformCommand(c, axis) ==
    LET cmd_upper == Upper(c.cmd)
        nums == NumsOf(c.coords)
    IN  IF cmd_upper = "Z" THEN <<"Z">>
        ELSE IF c.coords = <<>> \/ IsBlank(c.coords) THEN <<c.cmd>>
        ELSE IF nums = <<>> THEN <<c.cmd>>
        ELSE LET transformed_nums == TransformNums(cmd_upper, nums, axis)
                 coord_str == Join([k \in 1..Len(transformed_nums) |->
                                       FormatNum(transformed_nums[k])], <<" ">>)
             IN  <<c.cmd>> \o <<" ">> \o coord_str

\* transform_path(path_d, em)
transform_path(d, axis) ==
    LET commands == FindAll(d, 1)
    IN  IF commands = <<>> THEN d
        ELSE Join([i \in 1..Len(commands) |-> TransformCommand(commands[i], axis)], <<" ">>)

-----------------------------------------------------------------------------
(* inputs of the flip *)

\* a command carries 0..MaxOperands operands
MaxOperands == 14

\* two rows of integer operands; the fifth (an arc's sweep flag) is 1 and 0
OperandRows ==
    <<  <<3, 7, 0, 1, 1, 12, 5, 2, 9, 4, 0, 8, 6, 11, 13, 10>>,
        <<-4, 0, 30, 0, 0, -1, 100, 6, -7, 15, 2, -3, 1, 20, 0, -9>> >>

FlipLetters == {"M", "L", "H", "V", "C", "S", "Q", "T", "A", "Z", "l", "z"}

\* "L 3 7 0 1": the letter and n operands of a row, separated by spaces
RECURSIVE OperandText(_, _)
OperandText(row, n) ==
    IF n = 0 THEN <<>> ELSE OperandText(row, n - 1) \o <<" ">> \o FormatInt(row[n])

CommandText(letter, row, n) == <<letter>> \o OperandText(row, n)

OneCommandPaths ==
    {CommandText(l, OperandRows[r], n) :
        l \in FlipLetters, r \in 1..2, n \in 0..MaxOperands}

Scenario2Path == <<"M", " ", "0", " ", "0", " ", "L", " ", "1", "0", "0", " ", "0", " ", "L", " ", "1", "0", "0", " ", "1", "0", "0", " ", "Z">>
Scenario2Flipped == <<"M", " ", "0", " ", "1", "0", "0", " ", "L", " ", "1", "0", "0", " ", "1", "0", "0", " ", "L", " ", "1", "0", "0", " ", "0", " ", "Z">>

\* operands with one decimal place
HalvesPath == <<"M", " ", "1", ".", "5", " ", "2", " ", "H", " ", "2", ".", "5", " ", "7", " ", "V", " ", "0", ".", "5", " ", "4", " ", "A", " ", "1", " ", "1", " ", "0", " ", "0", " ", "1", " ", "5", " ", "5", ".", "5">>

WrittenPaths ==
    {Scenario2Path,
     <<"M", " ", "1", " ", "2", " ", "z">>,
     <<"M", "1", "-", "2">>,
     <<"M", "1", "0", ",", "2", "0", "L", "3", "0", ",", "4", "0">>,
     <<"S", " ", "1", " ", "2", " ", "3", " ", "4">>,
     <<"T", " ", "1", " ", "2">>,
     <<"M", " ", "0", " ", "0", " ", "H", " ", "5", " ", "V", " ", "3", " ", "Z">>,
     <<"X", " ", "1", " ", "2">>,
     HalvesPath,
     <<"M", " ", "1", " ", "2", " ", "Q", " ", "3", " ", "4", " ", "5", " ", "6", " ", "A", " ", "1", " ", "1", " ", "0", " ", "0", " ", "1", " ", "5", " ", "5", " ", "z">>,
     <<>>}

FlipPaths == OneCommandPaths \cup WrittenPaths

\* units per em: 1000 is the tool's default
Ems == {10, 100, 1000}

FlipInit ==
    /\ path_d \in FlipPaths
    /\ em \in {FromInt(e) : e \in Ems}
    /\ flipped = None
    /\ reflipped = None
    /\ svg_bounds = Bounds(FromInt(0), FromInt(0), FromInt(0), FromInt(0))
    /\ view_size = FromInt(0)
    /\ transform = None
    /\ dotted_transform = None
    /\ flutter_transform = None
    /\ vertex = None
    /\ stroke_point = None
    /\ projected = None
    /\ PathIdle
    /\ GeomIdle

\* extract_glyph_path: d = transform_path(d, em)
TransformPath ==
    /\ flipped = None
    /\ flipped' = Some(transform_path(path_d, em))
    /\ UNCHANGED <<path_d, em, reflipped>>
    /\ UNCHANGED <<fitVars, pathVars, geomVars>>

\* the flip applied to its own output
TransformPathAgain ==
    /\ IsSome(flipped)
    /\ reflipped = None
    /\ reflipped' = Some(transform_path(Get(flipped), em))
    /\ UNCHANGED <<path_d, em, flipped>>
    /\ UNCHANGED <<fitVars, pathVars, geomVars>>

FlipNext ==
    \/ TransformPath
    \/ TransformPathAgain

SpecFlip == FlipInit /\ [][FlipNext]_vars

-----------------------------------------------------------------------------
(* claims about the vertical flip, checked under SpecFlip *)

\* a path as transform_path reads it: the command letters in order, each with
\* the numbers of its coordinate string
Commands(s) ==
    LET found == FindAll(s, 1)
    IN  [i \in 1..Len(found) |-> [cmd |-> found[i].cmd, nums |-> NumsOf(found[i].coords)]]

\* the operands one instance of a pair command takes: 2 for M, L and T, 4 for
\* Q and S, 6 for C
PairArity(cmd_upper) ==
    CASE cmd_upper \in {"M", "L", "T"} -> 2
      [] cmd_upper \in {"Q", "S"} -> 4
      [] cmd_upper = "C" -> 6

PairCommands == {"M", "L", "C", "S", "Q", "T"}

\* every (x, y) pair of every complete instance of command a is (x, axis - y)
\* in command b
PairsFlipped(a, b, axis) ==
    LET size == PairArity(Upper(a.cmd))
    IN  /\ b.cmd = a.cmd
        /\ Len(b.nums) = Len(a.nums)
        /\ \A p \in 1..((size \div 2) * (Len(a.nums) \div size)) :
             /\ b.nums[2 * p - 1] = a.nums[2 * p - 1]
             /\ b.nums[2 * p] = RSub(axis, a.nums[2 * p])

AllPairsFlipped(before, after, axis) ==
    /\ Len(after) = Len(before)
    /\ \A i \in 1..Len(before) :
         Upper(before[i].cmd) \in PairCommands => PairsFlipped(before[i], after[i], axis)

\* C8 (as claimed): under a vertical flip with axis size em, transform_path
\* rewrites every (x, y) operand pair of every M, L, C, S, Q and T command to
\* (x, em - y), whatever the number of operands of the command type (S with
\* 4 operands, T with 2 operands) and for repeated operand groups.
C8_EveryPairFlipped ==
    IsSome(flipped) => AllPairsFlipped(Commands(path_d), Commands(Get(flipped)), em)

\* C9: transform_path applied to "M 0 0 L 100 0 L 100 100 Z" with axis size
\* 100 returns exactly "M 0 100 L 100 100 L 100 0 Z".
C9_Scenario2 ==
    (path_d = Scenario2Path /\ em = FromInt(100) /\ IsSome(flipped)) =>
        Get(flipped) = Scenario2Flipped

C9_Witness ==
    /\ path_d = Scenario2Path /\ em = FromInt(100)
    /\ IsSome(flipped) /\ Get(flipped) # path_d

\* the command a letter names, ClosePath being one command in either case, and
\* its operands (ClosePath has none)
CommandView(c) ==
    IF Upper(c.cmd) = "Z" THEN [cmd |-> "Z", nums |-> <<>>] ELSE c

SameCommands(a, b) ==
    /\ Len(a) = Len(b)
    /\ \A i \in 1..Len(a) : CommandView(a[i]) = CommandView(b[i])

\* C10: Flip involution.  For every path with integer operands and every
\* integer axis size em, transform_path(transform_path(d, em), em) has the
\* same sequence of commands with the same operands as d: every Y coordinate
\* and every arc sweep flag is restored exactly, and X coordinates, radii and
\* the other operands are untouched.  (z and Z are the one ClosePath command.)
C10_FlipInvolution ==
    IsSome(reflipped) => SameCommands(Commands(path_d), Commands(Get(reflipped)))

C10_Witness ==
    /\ IsSome(reflipped)
    /\ em = FromInt(10)
    /\ path_d = CommandText("A", OperandRows[1], 14)
    /\ Commands(Get(flipped))[1].nums[5] = FromInt(0)
    /\ Commands(Get(flipped))[1].nums[7] = FromInt(5)
    /\ Commands(Get(reflipped))[1].nums[5] = FromInt(1)

\* arc command b is arc command a with, in every complete group of 7 operands,
\* the sweep flag complemented and the endpoint y flipped, and nothing else
\* changed in the group
ArcFlipped(a, b, axis) ==
    /\ b.cmd = a.cmd
    /\ Len(b.nums) = Len(a.nums)
    /\ \A g \in 0..((Len(a.nums) \div 7) - 1) :
         /\ \A k \in {1, 2, 3, 4, 6} : b.nums[7 * g + k] = a.nums[7 * g + k]
         /\ b.nums[7 * g + 5] = RSub(FromInt(1), a.nums[7 * g + 5])
         /\ b.nums[7 * g + 7] = RSub(axis, a.nums[7 * g + 7])

AllArcsFlipped(before, after, axis) ==
    /\ Len(after) = Len(before)
    /\ \A i \in 1..Len(before) :
         Upper(before[i].cmd) = "A" => ArcFlipped(before[i], after[i], axis)

\* C11: under a vertical flip every complete arc operand group (rx, ry,
\* rotation, largeArc, sweep, x, y) of an A command is rewritten to (rx, ry,
\* rotation, largeArc, 1 - sweep, x, em - y): only the endpoint y and the
\* sweep flag change, and the output command is still an arc with 7 operands
\* per group.
C11_ArcGroupsFlipped ==
    IsSome(flipped) => AllArcsFlipped(Commands(path_d), Commands(Get(flipped)), em)

\* two complete arc groups flipped about em = 100
C11_Witness ==
    /\ path_d = CommandText("A", OperandRows[2], 14)
    /\ em = FromInt(100)
    /\ IsSome(flipped)
    /\ Commands(Get(flipped))[1].cmd = "A"
    /\ Commands(Get(flipped))[1].nums =
           <<FromInt(-4), FromInt(0), FromInt(30), FromInt(0), FromInt(1), FromInt(-1),
             FromInt(0), FromInt(6), FromInt(-7), FromInt(15), FromInt(2), FromInt(4),
             FromInt(1), FromInt(80)>>

\* command b is the single-scalar command a: H with its operands unchanged,
\* V with every operand y as axis - y
ScalarsFlipped(a, b, axis) ==
    /\ b.cmd = a.cmd
    /\ Len(b.nums) = Len(a.nums)
    /\ \A k \in 1..Len(a.nums) :
         b.nums[k] = IF Upper(a.cmd) = "H" THEN a.nums[k] ELSE RSub(axis, a.nums[k])

AllScalarsFlipped(before, after, axis) ==
    /\ Len(after) = Len(before)
    /\ \A i \in 1..Len(before) :
         Upper(before[i].cmd) \in {"H", "V"} => ScalarsFlipped(before[i], after[i], axis)

\* C12: under a vertical flip single-scalar commands keep their letter and
\* their operand count: every operand of an H command is output unchanged and
\* the command stays H, and every operand y of a V command is output as
\* em - y and the command stays V.
C12_ScalarCommandsKept ==
    IsSome(flipped) => AllScalarsFlipped(Commands(path_d), Commands(Get(flipped)), em)

\* "M 1.5 2 H 2.5 7 V 0.5 4 A ..." flipped about em = 10
C12_Witness ==
    /\ path_d = HalvesPath
    /\ em = FromInt(10)
    /\ IsSome(flipped)
    /\ Commands(Get(flipped))[2] = [cmd |-> "H", nums |-> <<Rat(5, 2), FromInt(7)>>]
    /\ Commands(Get(flipped))[3] = [cmd |-> "V", nums |-> <<Rat(19, 2), FromInt(6)>>]

-----------------------------------------------------------------------------
(* Bezier sampling and boxes *)

\* (1-t)**2 * p0 + 2*(1-t)*t * p1 + t**2 * p2
QuadraticAt(p0, p1, p2, t, u) ==
    RAdd(RAdd(RMul(RMul(u, u), p0),
              RMul(RMul(RMul(FromInt(2), u), t), p1)),
         RMul(RMul(t, t), p2))

\* (1-t)**3 * p0 + 3*(1-t)**2*t * p1 + 3*(1-t)*t**2 * p2 + t**3 * p3
CubicAt(p0, p1, p2, p3, t, u) ==
    RAdd(RAdd(RAdd(RMul(RMul(RMul(u, u), u), p0),
                   RMul(RMul(RMul(FromInt(3), RMul(u, u)), t), p1)),
              RMul(RMul(RMul(FromInt(3), u), RMul(t, t)), p2)),
         RMul(RMul(RMul(t, t), t), p3))

\* the sample at t = i / num_samples
QuadraticSample(x0, y0, x1, y1, x2, y2, i, num_samples) ==
    <<QuadraticAt(x0, x1, x2, Rat(i, num_samples), Rat(num_samples - i, num_samples)),
      QuadraticAt(y0, y1, y2, Rat(i, num_samples), Rat(num_samples - i, num_samples))>>

CubicSample(x0, y0, x1, y1, x2, y2, x3, y3, i, num_samples) ==
    <<CubicAt(x0, x1, x2, x3, Rat(i, num_samples), Rat(num_samples - i, num_samples)),
      CubicAt(y0, y1, y2, y3, Rat(i, num_samples), Rat(num_samples - i, num_samples))>>

\* a sampler whose loop starts at i = 1: the start point is left out
sample_quadratic_bezier_open(x0, y0, x1, y1, x2, y2, num_samples) ==
    [k \in 1..num_samples |->
        QuadraticSample(x0, y0, x1, y1, x2, y2, k, num_samples)]

\* sample_quadratic_bezier: the points for i in range(num_samples + 1)
sample_quadratic_bezier(x0, y0, x1, y1, x2, y2, num_samples) ==
    [k \in 1..(num_samples + 1) |->
        QuadraticSample(x0, y0, x1, y1, x2, y2, k - 1, num_samples)]

\* sample_cubic_bezier: the points for i in range(num_samples + 1)
sample_cubic_bezier(x0, y0, x1, y1, x2, y2, x3, y3, num_samples) ==
    [k \in 1..(num_samples + 1) |->
        CubicSample(x0, y0, x1, y1, x2, y2, x3, y3, k - 1, num_samples)]

\* min(...) and max(...) of coordinate i of the points from position k on,
\* and of best
CoordsFrom(pts, i, k, best) == {best} \cup {pts[j][i] : j \in k..Len(pts)}

LeastOf(S) == CHOOSE m \in S : \A y \in S : RLe(m, y)

GreatestOf(S) == CHOOSE m \in S : \A y \in S : RLe(y, m)

MinCoord(pts, i, k, best) == LeastOf(CoordsFrom(pts, i, k, best))

MaxCoord(pts, i, k, best) == GreatestOf(CoordsFrom(pts, i, k, best))

BoxOfExtremes(min_x, min_y, max_x, max_y) ==
    Bounds(min_x, min_y, RSub(max_x, min_x), RSub(max_y, min_y))

\* {'left': min(all_x), 'top': min(all_y), 'width': max(all_x) - min(all_x),
\*  'height': max(all_y) - min(all_y)} of a non-empty list of points
BoxOfPoints(pts) ==
    BoxOfExtremes(MinCoord(pts, 1, 2, pts[1][1]), MinCoord(pts, 2, 2, pts[1][2]),
                  MaxCoord(pts, 1, 2, pts[1][1]), MaxCoord(pts, 2, 2, pts[1][2]))

-----------------------------------------------------------------------------
(* fix_json_alignment.py: parse_svg_path, get_svg_bounds, verify_alignment *)

\* num_samples=20
JsonNumSamples == 20

\* "if nums: commands.append((cmd_upper, nums))"
CommandIfNums(cmd_upper, nums) ==
    IF nums # <<>> THEN <<[cmd |-> cmd_upper, coords |-> nums]>> ELSE <<>>

\* one iteration of "for cmd, coords_str in matches": what is appended to commands
ParsedCommand(m) ==
    IF Upper(m.cmd) = "Z" THEN <<[cmd |-> "Z", coords |-> <<>>]>>
    ELSE IF m.coords = <<>> \/ IsBlank(m.coords) THEN <<>>
    ELSE CommandIfNums(Upper(m.cmd), NumsOf(m.coords))

RECURSIVE ParseMatches(_, _)
ParseMatches(matches, i) ==
    IF i > Len(matches) THEN <<>>
    ELSE ParsedCommand(matches[i]) \o ParseMatches(matches, i + 1)

\* fix_json_alignment.py: parse_svg_path
parse_svg_path(path) == ParseMatches(FindAll(path, 1), 1)

\* a step that forgets the points recorded before
MoveAndRecord_only(st, p) == [cur |-> p, pts |-> <<p>>]

\* get_svg_bounds: current point moved to p, and p recorded in all_x, all_y
MoveAndRecord(st, p) == [cur |-> p, pts |-> Append(st.pts, p)]

\* a step that records a curve's end point only
RecordCurve_endpoint(st, samples, end) == [cur |-> end, pts |-> Append(st.pts, end)]

\* get_svg_bounds: a curve's samples recorded, current point moved to its end
RecordCurve(st, samples, end) == [cur |-> end, pts |-> st.pts \o samples]

\* one iteration of "for cmd, coords in commands" of get_svg_bounds on
\* st = [cur |-> (current_x, current_y), pts |-> zip(all_x, all_y)]
BoundsStep(st, cmd, coords) ==
    IF cmd = "M" THEN
        IF Len(coords) >= 2 THEN MoveAndRecord(st, <<coords[1], coords[2]>>) ELSE st
    ELSE IF cmd = "L" THEN
        IF Len(coords) >= 2 THEN MoveAndRecord(st, <<coords[1], coords[2]>>) ELSE st
    ELSE IF cmd = "Q" THEN
        IF Len(coords) >= 4
        THEN RecordCurve(st,
                 sample_quadratic_bezier(st.cur[1], st.cur[2], coords[1], coords[2],
                                         coords[3], coords[4], JsonNumSamples),
                 <<coords[3], coords[4]>>)
        ELSE st
    ELSE IF cmd = "C" THEN
        IF Len(coords) >= 6
        THEN RecordCurve(st,
                 sample_cubic_bezier(st.cur[1], st.cur[2], coords[1], coords[2],
                                     coords[3], coords[4], coords[5], coords[6],
                                     JsonNumSamples),
                 <<coords[5], coords[6]>>)
        ELSE st
    ELSE IF cmd = "H" THEN
        IF Len(coords) >= 1 THEN MoveAndRecord(st, <<coords[1], st.cur[2]>>) ELSE st
    ELSE IF cmd = "V" THEN
        IF Len(coords) >= 1 THEN MoveAndRecord(st, <<st.cur[1], coords[1]>>) ELSE st
    ELSE st     \* Z: pass; S, T, A: no branch

RECURSIVE BoundsWalk(_, _, _)
BoundsWalk(commands, i, st) ==
    IF i > Len(commands) THEN st
    ELSE BoundsWalk(commands, i + 1, BoundsStep(st, commands[i].cmd, commands[i].coords))

\* get_svg_bounds: the state after the loop, from current point (0, 0)
BoundsState(path) ==
    BoundsWalk(parse_svg_path(path), 1, [cur |-> <<FromInt(0), FromInt(0)>>, pts |-> <<>>])

\* "if not all_x or not all_y: return None", else the box
BoxOrNone(pts) == IF pts = <<>> THEN None ELSE Some(BoxOfPoints(pts))

\* fix_json_alignment.py: get_svg_bounds
get_svg_bounds(path) == BoxOrNone(BoundsState(path).pts)

\* what a tool got: the bounds, the transform, the exception that ended it
Run(bounds, t, raised) == [bounds |-> bounds, transform |-> t, raised |-> raised]

RunWithTransform(box, t) ==
    IF IsRaised(t) THEN Run(Some(box), None, t.raised) ELSE Run(Some(box), Some(t), "")

VerifyWithBounds(b, size) ==
    IF b = None THEN Run(None, None, "")      \* "Error: Could not calculate SVG bounds"
    ELSE RunWithTransform(Get(b), calculate_flutter_transform(Get(b), size))

\* fix_json_alignment.py: verify_alignment, up to the transform
verify_alignment(path, size) == VerifyWithBounds(get_svg_bounds(path), size)

-----------------------------------------------------------------------------
(* visualize_points.py: parse_svg_path, svg_to_matplotlib_path, visualize *)

\* num_samples=10 of the local sample_quadratic_bezier
VizQuadraticSamples == 10
\* num_samples = 20 of the C branch
VizCubicSamples == 20

\* one iteration of "for cmd, coords in matches"
VizParsedCommand(m) ==
    IF m.coords = <<>> \/ Upper(m.cmd) = "Z" THEN [cmd |-> Upper(m.cmd), coords |-> <<>>]
    ELSE [cmd |-> Upper(m.cmd), coords |-> NumsOf(m.coords)]

VizParseMatches(matches) == [i \in 1..Len(matches) |-> VizParsedCommand(matches[i])]

\* visualize_points.py: parse_svg_path
viz_parse_svg_path(path) == VizParseMatches(FindAll(path, 1))

\* vertices.append(p); codes.append(code); current point moved to p
VizLineTo(st, p, code) ==
    [st EXCEPT !.cur = p, !.vertices = Append(@, p), !.codes = Append(@, code)]

\* M: as VizLineTo, and the subpath start moved to p
VizMoveTo(st, p) ==
    [st EXCEPT !.cur = p, !.start = p, !.vertices = Append(@, p),
               !.codes = Append(@, "MOVETO")]

\* the sampled points appended as LINETOs, current point moved to end
VizCurve(st, pts, end) ==
    [st EXCEPT !.cur = end, !.vertices = @ \o pts,
               !.codes = @ \o [k \in 1..Len(pts) |-> "LINETO"]]

\* a close that always goes to the origin
VizClose_origin(st) ==
    IF st.vertices # <<>>
    THEN [st EXCEPT !.cur = <<FromInt(0), FromInt(0)>>,
                    !.vertices = Append(@, <<FromInt(0), FromInt(0)>>),
                    !.codes = Append(@, "CLOSEPOLY")]
    ELSE st

\* Z: "if vertices:" close to the subpath start
VizClose(st) ==
    IF st.vertices # <<>>
    THEN [st EXCEPT !.cur = st.start, !.vertices = Append(@, st.start),
                    !.codes = Append(@, "CLOSEPOLY")]
    ELSE st

\* one iteration of "for cmd, coords in commands" of svg_to_matplotlib_path
VizStep(st, cmd, coords) ==
    IF cmd = "M" THEN
        IF Len(coords) >= 2 THEN VizMoveTo(st, <<coords[1], coords[2]>>) ELSE st
    ELSE IF cmd = "L" THEN
        IF Len(coords) >= 2 THEN VizLineTo(st, <<coords[1], coords[2]>>, "LINETO") ELSE st
    ELSE IF cmd = "Q" THEN
        IF Len(coords) >= 4
        THEN VizCurve(st,
                 Tail(sample_quadratic_bezier(st.cur[1], st.cur[2], coords[1], coords[2],
                                              coords[3], coords[4], VizQuadraticSamples)),
                 <<coords[3], coords[4]>>)
        ELSE st
    ELSE IF cmd = "C" THEN
        IF Len(coords) >= 6
        THEN VizCurve(st,
                 [i \in 1..VizCubicSamples |->
                     CubicSample(st.cur[1], st.cur[2], coords[1], coords[2], coords[3],
                                 coords[4], coords[5], coords[6], i, VizCubicSamples)],
                 <<coords[5], coords[6]>>)
        ELSE st
    ELSE IF cmd = "H" THEN
        IF Len(coords) >= 1 THEN VizLineTo(st, <<coords[1], st.cur[2]>>, "LINETO") ELSE st
    ELSE IF cmd = "V" THEN
        IF Len(coords) >= 1 THEN VizLineTo(st, <<st.cur[1], coords[1]>>, "LINETO") ELSE st
    ELSE IF cmd = "Z" THEN VizClose(st)
    ELSE st

RECURSIVE VizWalk(_, _, _)
VizWalk(commands, i, st) ==
    IF i > Len(commands) THEN st
    ELSE VizWalk(commands, i + 1, VizStep(st, commands[i].cmd, commands[i].coords))

\* svg_to_matplotlib_path: vertices, codes, current and start point after the loop
VizState(path) ==
    VizWalk(viz_parse_svg_path(path), 1,
            [cur |-> <<FromInt(0), FromInt(0)>>, start |-> <<FromInt(0), FromInt(0)>>,
             vertices |-> <<>>, codes |-> <<>>])

\* "if not vertices: return None; return MPLPath(vertices, codes)".  matplotlib's
\* Path refuses codes that do not begin with MOVETO (ValueError).
MplPathOf(st) ==
    IF st.vertices = <<>> THEN None
    ELSE IF st.codes[1] # "MOVETO" THEN Some(Raised("ValueError"))
    ELSE Some([vertices |-> st.vertices, codes |-> st.codes])

\* visualize_points.py: svg_to_matplotlib_path
svg_to_matplotlib_path(path) == MplPathOf(VizState(path))

VisualizeWithPath(mpl_path, size) ==
    IF mpl_path = None THEN Run(None, None, "")       \* "Error: Could not parse SVG path"
    ELSE IF IsRaised(Get(mpl_path)) THEN Run(None, None, Get(mpl_path).raised)
    ELSE RunWithTransform(BoxOfPoints(Get(mpl_path).vertices),
                          apply_flutter_transformation(BoxOfPoints(Get(mpl_path).vertices), size))

\* visualize_points.py: visualize, up to the transform
visualize(path, size) == VisualizeWithPath(svg_to_matplotlib_path(path), size)

-----------------------------------------------------------------------------
(* fix_dotted_path_alignment.py: parse_svg_path, convert_json_to_svg_coords *)

\* re.findall(r'([-]?\d+\.?\d*)', s) from position i
RECURSIVE FindNumbers(_, _)
FindNumbers(s, i) ==
    IF i > Len(s) THEN <<>>
    ELSE LET d0 == IF s[i] = "-" THEN i + 1 ELSE i
         IN  IF d0 <= Len(s) /\ s[d0] \in Digits
             THEN LET i1 == SkipWhile(s, d0, Digits)
                      i2 == IF i1 <= Len(s) /\ s[i1] = "." THEN SkipWhile(s, i1 + 1, Digits)
                            ELSE i1
                  IN  <<SubSeq(s, i, i2 - 1)>> \o FindNumbers(s, i2)
             ELSE FindNumbers(s, i + 1)

\* coords: float(match) of every match
DottedCoords(path) == ParseNums(FindNumbers(path, 1), 1)

\* x_coords = coords[0::2], y_coords = coords[1::2], paired while both exist;
\* min() of an empty list raises ValueError
DottedBox(coords) ==
    IF Len(coords) < 2 THEN Raised("ValueError")
    ELSE BoxOfExtremes(
            MinCoord([k \in 1..((Len(coords) + 1) \div 2) |-> <<coords[2 * k - 1]>>], 1, 2, coords[1]),
            MinCoord([k \in 1..(Len(coords) \div 2) |-> <<coords[2 * k]>>], 1, 2, coords[2]),
            MaxCoord([k \in 1..((Len(coords) + 1) \div 2) |-> <<coords[2 * k - 1]>>], 1, 2, coords[1]),
            MaxCoord([k \in 1..(Len(coords) \div 2) |-> <<coords[2 * k]>>], 1, 2, coords[2]))

\* fix_dotted_path_alignment.py: parse_svg_path
dotted_parse_svg_path(path) == DottedBox(DottedCoords(path))

ConvertWithBounds(letter_bounds, size) ==
    IF IsRaised(letter_bounds) THEN Run(None, None, letter_bounds.raised)
    ELSE RunWithTransform(letter_bounds, dotted_calculate_flutter_transform(letter_bounds, size))

\* fix_dotted_path_alignment.py: convert_json_to_svg_coords, up to the transform
convert_json_to_svg_coords(path, size) == ConvertWithBounds(dotted_parse_svg_path(path), size)

-----------------------------------------------------------------------------
(* inputs of the path tools *)

\* the command under test carries 0..MaxPathOperands operands
MaxPathOperands == 7

PathLetters == {"M", "L", "H", "V", "Q", "C", "S", "T", "A", "Z", "l"}

PathPrefixes == {<<>>, <<"M", " ", "2", " ", "3", " ">>}
PathSuffixes == {<<>>, <<" ", "Z">>}

ShapedPaths ==
    {pre \o CommandText(l, OperandRows[r], n) \o suf :
        pre \in PathPrefixes, l \in PathLetters, r \in 1..2,
        n \in 0..MaxPathOperands, suf \in PathSuffixes}

\* "M 1 1e 2 -- 1.2.3 4": three malformed numbers among well-formed ones
MalformedNumbersPath == <<"M", " ", "1", " ", "1", "e", " ", "2", " ", "-", "-", " ", "1", ".", "2", ".", "3", " ", "4">>
\* "M 1<tab>2 3"
TabbedPath == <<"M", " ", "1", "\t", "2", " ", "3">>
\* "M 10<newline>20 L 30 40"
LinesPath == <<"M", " ", "1", "0", "\n", "2", "0", " ", "L", " ", "3", "0", " ", "4", "0">>

WrittenSvgPaths ==
    {Scenario2Path,
     <<"M", " ", "0", " ", "0", " ", "H", " ", "1", "0", " ", "L", " ", "5", " ", "2", "0">>,
     <<"M", " ", "0", " ", "0", " ", "Q", " ", "1", "0", " ", "3", "0", " ", "2", "0", " ", "0">>,
     <<"M", " ", "1", " ", "2", " ", "L", " ", "3", " ", "4", " ", "Z", " ", "H", " ", "9">>,
     <<"M", " ", "1", "0", " ", "1", "0", " ", "l", " ", "5", " ", "5">>,
     MalformedNumbersPath,
     TabbedPath,
     LinesPath,
     <<"X", " ", "1", " ", "2", " ", "M", " ", "3", " ", "4">>,
     <<"M", " ", "1", "e">>,
     <<"#">>,
     <<"M", " ", "1", " ", "2", " ", "L">>,
     <<"Z">>,
     <<"M", " ", "1", " ", "#", " ", "2", " ", "3">>,
     <<"L", " ", "1", "0", " ", "1", "0", " ", "5", "0", "0", " ", "5", "0", "0">>,
     <<"M", " ", "0", " ", "0", " ", "C", " ", "0", " ", "4", "0", " ", "2", "0", " ", "4", "0", " ", "2", "0", " ", "0", " ", "V", " ", "5">>,
     <<"M", " ", "0", " ", "0", " ", "L", " ", "1", "0", " ", "0", " ", "Z", " ", "Q", " ", "3", "0", " ", "0", " ", "0", " ", "0">>,
     <<>>}

SvgPaths == ShapedPaths \cup WrittenSvgPaths

PathInit ==
    /\ svg_path \in SvgPaths
    /\ path_view_size = FromInt(300)
    /\ verified = None
    /\ visualized = None
    /\ converted = None
    /\ json_commands = None
    /\ viz_commands = None
    /\ json_state = None
    /\ viz_state = None
    /\ FlipIdle
    /\ svg_bounds = Bounds(FromInt(0), FromInt(0), FromInt(0), FromInt(0))
    /\ view_size = FromInt(0)
    /\ transform = None
    /\ dotted_transform = None
    /\ flutter_transform = None
    /\ vertex = None
    /\ stroke_point = None
    /\ projected = None
    /\ GeomIdle

\* python3 fix_json_alignment.py <json> <path> <viewSize>
VerifyAlignment ==
    /\ verified = None
    /\ json_commands' = Some(parse_svg_path(svg_path))
    /\ json_state' = Some(BoundsState(svg_path))
    /\ verified' = Some(verify_alignment(svg_path, path_view_size))
    /\ UNCHANGED <<svg_path, path_view_size, visualized, converted, viz_commands,
                   viz_state>>
    /\ UNCHANGED <<fitVars, flipVars, geomVars>>

\* python3 visualize_points.py <json> <path> <viewSize>
Visualize ==
    /\ visualized = None
    /\ viz_commands' = Some(viz_parse_svg_path(svg_path))
    /\ viz_state' = Some(VizState(svg_path))
    /\ visualized' = Some(visualize(svg_path, path_view_size))
    /\ UNCHANGED <<svg_path, path_view_size, verified, converted, json_commands,
                   json_state>>
    /\ UNCHANGED <<fitVars, flipVars, geomVars>>

\* python3 fix_dotted_path_alignment.py <json> <path> <viewSize>
ConvertJsonToSvgCoords ==
    /\ converted = None
    /\ converted' = Some(convert_json_to_svg_coords(svg_path, path_view_size))
    /\ UNCHANGED <<svg_path, path_view_size, verified, visualized, json_commands,
                   viz_commands, json_state, viz_state>>
    /\ UNCHANGED <<fitVars, flipVars, geomVars>>

PathNext ==
    \/ VerifyAlignment
    \/ Visualize
    \/ ConvertJsonToSvgCoords

SpecPath == PathInit /\ [][PathNext]_vars

-----------------------------------------------------------------------------
(* claims about parsing, checked under SpecPath *)

\* what a number is written with, and what separates operands: white space
\* and commas
NumberChars == Digits \cup {"-", ".", "e", "E"}
Separators == WhiteSpace \cup {","}

\* the positions of the command letters of s from i on, in order
RECURSIVE LetterPositions(_, _)
LetterPositions(s, i) ==
    IF i > Len(s) THEN <<>>
    ELSE IF s[i] \in CommandLetters THEN <<i>> \o LetterPositions(s, i + 1)
    ELSE LetterPositions(s, i + 1)

\* the operand text of the command letter at position i: the numbers and
\* separators that follow it, up to the next letter or unknown character
OperandTextAt(s, i) ==
    SubSeq(s, i + 1, SkipWhile(s, i + 1, NumberChars \cup Separators) - 1)

\* every command letter of s with the well-formed numbers of its operand text
WrittenCommandsAt(s, at) ==
    [k \in 1..Len(at) |->
        [cmd |-> Upper(s[at[k]]), coords |-> NumsOf(OperandTextAt(s, at[k]))]]

WrittenCommands(s) == WrittenCommandsAt(s, LetterPositions(s, 1))

HasOperands(c) == c.cmd # "Z" /\ c.coords # <<>>

\* the commands that carry operands, in order
WithOperands(cmds) == SelectSeq(cmds, HasOperands)

\* C13: parsing never fails: for every input string (unknown characters,
\* malformed numbers such as "1e", "--", "1.2.3", empty input) parse_svg_path
\* returns a command list; unknown tokens produce no command, and each
\* malformed number is dropped from its command's operand list while the
\* well-formed operands of that command and all other commands are kept in
\* order.  Stated for both parser copies.
C13_WellFormedOperandsKept ==
    /\ IsSome(json_commands) =>
           WithOperands(Get(json_commands)) = WithOperands(WrittenCommands(svg_path))
    /\ IsSome(viz_commands) =>
           WithOperands(Get(viz_commands)) = WithOperands(WrittenCommands(svg_path))

\* the command letters of a command list, in order
LettersOf(cmds) == [k \in 1..Len(cmds) |-> cmds[k].cmd]

\* cmds has one command per command letter of s, and a zero-operand command
\* for every letter that no number follows
DanglingRetained(cmds, written) ==
    /\ LettersOf(cmds) = LettersOf(written)
    /\ \A k \in 1..Len(written) : written[k].coords = <<>> => cmds[k].coords = <<>>

\* C14: a command letter with no numeric operand after it is retained in the
\* parse result as a command with an empty operand list, for every command
\* letter (not only Z) and in every parser copy; a path consisting of a
\* dangling "Z" parses to exactly one zero-operand ClosePath.
C14_DanglingLetterRetained ==
    /\ IsSome(json_commands) =>
           DanglingRetained(Get(json_commands), WrittenCommands(svg_path))
    /\ IsSome(viz_commands) =>
           DanglingRetained(Get(viz_commands), WrittenCommands(svg_path))

-----------------------------------------------------------------------------
(* claims about the bounds, checked under SpecPath *)

\* the point (x, y) lies in the box
InBox(b, x, y) ==
    /\ RLe(b.left, x) /\ RLe(x, RAdd(b.left, b.width))
    /\ RLe(b.top, y) /\ RLe(y, RAdd(b.top, b.height))

\* "M 10 10 l 5 5"
RelativePath == <<"M", " ", "1", "0", " ", "1", "0", " ", "l", " ", "5", " ", "5">>
\* "M 2 3 "
MovePrefix == <<"M", " ", "2", " ", "3", " ">>

\* C15: lower-case (relative) commands are resolved against the running
\* current point before bounds use them: the point a lower-case command
\* contributes is current point + offset, so the bounds of "M 10 10 l 5 5"
\* include (15, 15) and not (5, 5), and the bounds of "M 2 3 l dx dy" include
\* (2 + dx, 3 + dy).
C15_RelativeResolved ==
    IsSome(verified) =>
        /\ svg_path = RelativePath =>
              /\ IsSome(Get(verified).bounds)
              /\ InBox(Get(Get(verified).bounds), FromInt(15), FromInt(15))
              /\ ~InBox(Get(Get(verified).bounds), FromInt(5), FromInt(5))
        /\ \A r \in 1..2 :
              svg_path = MovePrefix \o CommandText("l", OperandRows[r], 2) =>
                  /\ IsSome(Get(verified).bounds)
                  /\ InBox(Get(Get(verified).bounds),
                           FromInt(2 + OperandRows[r][1]), FromInt(3 + OperandRows[r][2]))

LowerCaseLetters == {"m", "l", "h", "v", "c", "s", "q", "t", "a", "z"}

\* no command of the path is relative
AllAbsolute(s) == \A k \in 1..Len(s) : s[k] \notin LowerCaseLetters

\* every complete (x, y) group of the M and L commands lies in the box
EveryLinePointInBox(cmds, b) ==
    \A i \in 1..Len(cmds) :
        cmds[i].cmd \in {"M", "L"} =>
            \A g \in 1..(Len(cmds[i].coords) \div 2) :
                InBox(b, cmds[i].coords[2 * g - 1], cmds[i].coords[2 * g])

\* C16: when one command letter is followed by k complete operand groups of
\* its arity, each group is a distinct command instance: every repetition
\* advances the current point and contributes its coordinates to the bounding
\* box (both points of "L 10 10 500 500" are inside the box returned by
\* get_svg_bounds).  Stated for the repetitions of M and L.
C16_RepetitionsInBox ==
    (IsSome(verified) /\ AllAbsolute(svg_path) /\ IsSome(Get(verified).bounds)) =>
        EveryLinePointInBox(Get(json_commands), Get(Get(verified).bounds))

\* the operands one instance of a command takes
Arity(cmd_upper) ==
    CASE cmd_upper \in {"H", "V"} -> 1
      [] cmd_upper \in {"M", "L", "T"} -> 2
      [] cmd_upper \in {"Q", "S"} -> 4
      [] cmd_upper = "C" -> 6
      [] cmd_upper = "A" -> 7
      [] OTHER -> 0

\* the command carries at least one complete operand group
BearsCoordinates(c) == Arity(c.cmd) > 0 /\ Len(c.coords) >= Arity(c.cmd)

\* C19: get_svg_bounds returns None if and only if the outline has no command
\* that carries coordinates; every outline with a coordinate-bearing command,
\* also when its only such commands are arcs, S/T curves or H/V, yields a
\* bounding box.
C19_NoneOnlyWhenEmpty ==
    IsSome(verified) =>
        (Get(verified).bounds = None
            <=> \A i \in 1..Len(Get(json_commands)) : ~BearsCoordinates(Get(json_commands)[i]))

-----------------------------------------------------------------------------
(* incomplete operand groups, checked under SpecFlip *)

\* the commands whose operands transform_path groups by their arity
GroupedCommands == {"M", "L", "C", "Q", "A"}

\* every M, L, C, Q and A command of the list has complete operand groups only
NoRemainder(cmds) ==
    \A i \in 1..Len(cmds) :
        Upper(cmds[i].cmd) \in GroupedCommands =>
            Len(cmds[i].nums) % Arity(Upper(cmds[i].cmd)) = 0

\* C17: when a command's operand count is not a multiple of its arity, the
\* operands after the last complete group are silently dropped: they do not
\* appear in the re-serialized output of transform_path.
C17_RemainderDropped ==
    IsSome(flipped) => NoRemainder(Commands(Get(flipped)))

-----------------------------------------------------------------------------
(* the curve samplers on their own *)

\* num_samples ranges over 1..MaxSamples and the two values the tools use
MaxSamples == 4

SampleCounts == (1..MaxSamples) \cup {VizQuadraticSamples, JsonNumSamples}

StartPoints == {<<0, 0>>, <<2, 3>>}
FirstControls == {<<50, 0>>, <<1, -4>>}
SecondControls == {<<100, 100>>, <<5, 5>>}
EndPoints == {<<120, 0>>, <<7, 1>>}

Curves ==
    [p0 : StartPoints, p1 : FirstControls, p2 : SecondControls, p3 : EndPoints,
     num_samples : SampleCounts]

SampleInit ==
    /\ curve \in Curves
    /\ quadratic_points = None
    /\ cubic_points = None
    /\ FitIdle /\ FlipIdle /\ PathIdle /\ GrowIdle /\ StrokeIdle

\* sample_quadratic_bezier(x0, y0, x1, y1, x2, y2, num_samples)
SampleQuadraticBezier ==
    /\ quadratic_points = None
    /\ quadratic_points' =
           Some(sample_quadratic_bezier(
                    FromInt(curve.p0[1]), FromInt(curve.p0[2]),
                    FromInt(curve.p1[1]), FromInt(curve.p1[2]),
                    FromInt(curve.p2[1]), FromInt(curve.p2[2]), curve.num_samples))
    /\ UNCHANGED <<curve, cubic_points>>
    /\ UNCHANGED <<fitVars, flipVars, pathVars, growVars, strokeVars>>

\* sample_cubic_bezier(x0, y0, x1, y1, x2, y2, x3, y3, num_samples)
SampleCubicBezier ==
    /\ cubic_points = None
    /\ cubic_points' =
           Some(sample_cubic_bezier(
                    FromInt(curve.p0[1]), FromInt(curve.p0[2]),
                    FromInt(curve.p1[1]), FromInt(curve.p1[2]),
                    FromInt(curve.p2[1]), FromInt(curve.p2[2]),
                    FromInt(curve.p3[1]), FromInt(curve.p3[2]), curve.num_samples))
    /\ UNCHANGED <<curve, quadratic_points>>
    /\ UNCHANGED <<fitVars, flipVars, pathVars, growVars, strokeVars>>

SampleNext ==
    \/ SampleQuadraticBezier
    \/ SampleCubicBezier

SpecSample == SampleInit /\ [][SampleNext]_vars

PointOf(p) == <<FromInt(p[1]), FromInt(p[2])>>

\* n + 1 points, the first the start point and the last the end point
SpansCurve(points, first, last, n) ==
    /\ Len(points) = n + 1
    /\ points[1] = PointOf(first)
    /\ points[n + 1] = PointOf(last)

\* x grows from each point to the next
XIncreasing(points) ==
    \A k \in 1..(Len(points) - 1) : RLt(points[k][1], points[k + 1][1])

\* C18: curve sampling with sample count n >= 1 returns exactly n + 1 points
\* in increasing parameter order, the first equal to the start point p0 and
\* the last equal to the curve's end point, for both the quadratic and the
\* cubic sampler.  (Parameter order is observed on the curves whose control
\* points have increasing x: there x increases with the parameter.)
C18_SamplesSpanCurve ==
    /\ IsSome(quadratic_points) =>
          /\ SpansCurve(Get(quadratic_points), curve.p0, curve.p2, curve.num_samples)
          /\ (curve.p0[1] < curve.p1[1] /\ curve.p1[1] < curve.p2[1])
                => XIncreasing(Get(quadratic_points))
    /\ IsSome(cubic_points) =>
          /\ SpansCurve(Get(cubic_points), curve.p0, curve.p3, curve.num_samples)
          /\ (curve.p0[1] < curve.p1[1] /\ curve.p1[1] < curve.p2[1]
                /\ curve.p2[1] < curve.p3[1])
                => XIncreasing(Get(cubic_points))

\* scenario 5: the quadratic from (0,0) with control (50,0) and end (100,100)
\* at n = 4: 5 points, (0,0) first, (50,25) in the middle, (100,100) last
C18_Witness ==
    /\ curve.p0 = <<0, 0>> /\ curve.p1 = <<50, 0>> /\ curve.p2 = <<100, 100>>
    /\ curve.num_samples = 4
    /\ IsSome(quadratic_points) /\ IsSome(cubic_points)
    /\ Len(Get(quadratic_points)) = 5
    /\ Get(quadratic_points)[1] = <<FromInt(0), FromInt(0)>>
    /\ Get(quadratic_points)[3] = <<FromInt(50), FromInt(25)>>
    /\ Get(quadratic_points)[5] = <<FromInt(100), FromInt(100)>>

-----------------------------------------------------------------------------
(* get_svg_bounds on an outline and on the outline with one more command *)

AppendedCommands ==
    {<<"L", " ", "-", "9", " ", "4", "0">>,
     <<"H", " ", "5", "0">>,
     <<"V", " ", "-", "5">>,
     <<"Q", " ", "1", " ", "4", "0", " ", "3", "0", " ", "2">>,
     <<"C", " ", "0", " ", "-", "4", "0", " ", "2", "0", " ", "4", "0", " ", "2", "0", " ", "0">>,
     <<"Z">>,
     <<"A", " ", "1", " ", "1", " ", "0", " ", "0", " ", "1", " ", "5", "0", " ", "5", "0">>,
     <<"l", " ", "1", " ", "1">>}

GrowInit ==
    /\ outline \in SvgPaths
    /\ appended \in AppendedCommands
    /\ outline_box = None
    /\ grown_box = None
    /\ FitIdle /\ FlipIdle /\ PathIdle /\ SampleIdle /\ StrokeIdle

\* svg_bounds = get_svg_bounds(svg_path)
GetSvgBounds ==
    /\ outline_box = None
    /\ outline_box' = Some(get_svg_bounds(outline))
    /\ UNCHANGED <<outline, appended, grown_box>>
    /\ UNCHANGED <<fitVars, flipVars, pathVars, sampleVars, strokeVars>>

\* get_svg_bounds of the outline followed by the appended command
GetSvgBoundsGrown ==
    /\ grown_box = None
    /\ grown_box' = Some(get_svg_bounds(outline \o <<" ">> \o appended))
    /\ UNCHANGED <<outline, appended, outline_box>>
    /\ UNCHANGED <<fitVars, flipVars, pathVars, sampleVars, strokeVars>>

GrowNext ==
    \/ GetSvgBounds
    \/ GetSvgBoundsGrown

SpecGrow == GrowInit /\ [][GrowNext]_vars

\* box b lies within box c
BoxWithin(b, c) ==
    /\ RLe(c.left, b.left)
    /\ RLe(c.top, b.top)
    /\ RLe(RAdd(b.left, b.width), RAdd(c.left, c.width))
    /\ RLe(RAdd(b.top, b.height), RAdd(c.top, c.height))

\* C20: bounds monotonicity: for every outline with bounding box B and every
\* command c, the bounding box of the outline with c appended contains B (left
\* and top do not increase, left + width and top + height do not decrease),
\* and appending never turns a box into None.
C20_BoundsMonotone ==
    (IsSome(outline_box) /\ IsSome(grown_box) /\ IsSome(Get(outline_box))) =>
        /\ IsSome(Get(grown_box))
        /\ BoxWithin(Get(Get(outline_box)), Get(Get(grown_box)))

\* "M 0 0 H 10 L 5 20" with "H 50" appended: the box grows from width 10 to 50
C20_Witness ==
    /\ outline = <<"M", " ", "0", " ", "0", " ", "H", " ", "1", "0", " ", "L", " ", "5", " ", "2", "0">>
    /\ appended = <<"H", " ", "5", "0">>
    /\ IsSome(outline_box) /\ IsSome(grown_box)
    /\ Get(outline_box) = Some(Bounds(FromInt(0), FromInt(0), FromInt(10), FromInt(20)))
    /\ Get(grown_box) = Some(Bounds(FromInt(0), FromInt(0), FromInt(50), FromInt(20)))

-----------------------------------------------------------------------------
(* the fit of the three path tools *)

\* all three tools have run on svg_path and each obtained a bounding box and
\* a fit from it
AllToolsFitted ==
    /\ IsSome(verified) /\ IsSome(visualized) /\ IsSome(converted)
    /\ IsSome(Get(verified).transform)
    /\ IsSome(Get(visualized).transform)
    /\ IsSome(Get(converted).transform)

\* C3: for the same path string and the same view size every tool derives the
\* same fit: the bounding box (and hence the scale and translation) that
\* fix_dotted_path_alignment obtains from its parse_svg_path equals the one
\* fix_json_alignment obtains from get_svg_bounds and the one visualize_points
\* obtains from the vertices of svg_to_matplotlib_path.
C3_SameFitInEveryTool ==
    AllToolsFitted =>
        /\ Get(converted).bounds = Get(verified).bounds
        /\ Get(converted).bounds = Get(visualized).bounds
        /\ Get(converted).transform = Get(verified).transform
        /\ Get(converted).transform = Get(visualized).transform

-----------------------------------------------------------------------------
(* the points get_svg_bounds records, and its box *)

\* the points one command records from the current point cur: the new current
\* point for M, L (both operands), H (x replaced) and V (y replaced), the 21
\* samples at t = 0/20 .. 20/20 for Q and C, nothing otherwise
PointsRecorded(c, cur) ==
    IF c.cmd \in {"M", "L"} /\ Len(c.coords) >= 2 THEN <<<<c.coords[1], c.coords[2]>>>>
    ELSE IF c.cmd = "H" /\ Len(c.coords) >= 1 THEN <<<<c.coords[1], cur[2]>>>>
    ELSE IF c.cmd = "V" /\ Len(c.coords) >= 1 THEN <<<<cur[1], c.coords[1]>>>>
    ELSE IF c.cmd = "Q" /\ Len(c.coords) >= 4
        THEN [k \in 1..21 |->
                 QuadraticSample(cur[1], cur[2], c.coords[1], c.coords[2],
                                 c.coords[3], c.coords[4], k - 1, 20)]
    ELSE IF c.cmd = "C" /\ Len(c.coords) >= 6
        THEN [k \in 1..21 |->
                 CubicSample(cur[1], cur[2], c.coords[1], c.coords[2], c.coords[3],
                             c.coords[4], c.coords[5], c.coords[6], k - 1, 20)]
    ELSE <<>>

\* the points the commands from position i on record, the current point being cur
RECURSIVE PointsRecordedFrom(_, _, _)
PointsRecordedFrom(cmds, i, cur) ==
    IF i > Len(cmds) THEN <<>>
    ELSE PointsRecorded(cmds[i], cur) \o
         PointsRecordedFrom(cmds, i + 1,
             IF PointsRecorded(cmds[i], cur) = <<>> THEN cur
             ELSE PointsRecorded(cmds[i], cur)[Len(PointsRecorded(cmds[i], cur))])

\* b is the min/max box of the non-empty list pts: no point lies outside it,
\* every side passes through a point, and its sizes are not negative
IsMinMaxBox(b, pts) ==
    /\ \A k \in 1..Len(pts) : InBox(b, pts[k][1], pts[k][2])
    /\ \E k \in 1..Len(pts) : pts[k][1] = b.left
    /\ \E k \in 1..Len(pts) : pts[k][2] = b.top
    /\ \E k \in 1..Len(pts) : pts[k][1] = RAdd(b.left, b.width)
    /\ \E k \in 1..Len(pts) : pts[k][2] = RAdd(b.top, b.height)
    /\ RLe(FromInt(0), b.width) /\ RLe(FromInt(0), b.height)

\* C25: get_svg_bounds starts at current point (0,0), records the new current
\* point after each M, L, H (x replaced, y kept) and V (y replaced, x kept),
\* records for each Q and C all 21 samples of the curve from the pre-command
\* current point (that point included), and returns exactly the min/max box
\* of the recorded points, whose width and height are never negative.
C25_BoxOfRecordedPoints ==
    (IsSome(verified) /\ IsSome(json_state) /\ IsSome(json_commands)) =>
        /\ Get(json_state).pts =
               PointsRecordedFrom(Get(json_commands), 1, <<FromInt(0), FromInt(0)>>)
        /\ Get(json_state).pts # <<>> =>
               /\ IsSome(Get(verified).bounds)
               /\ IsMinMaxBox(Get(Get(verified).bounds), Get(json_state).pts)

\* a curve after a move: 22 points recorded, the box wider than the end points
C25_Witness ==
    /\ svg_path = <<"M", " ", "0", " ", "0", " ", "Q", " ", "1", "0", " ", "3", "0", " ", "2", "0", " ", "0">>
    /\ IsSome(verified) /\ IsSome(json_state)
    /\ Len(Get(json_state).pts) = 22
    /\ Get(verified).bounds = Some(Bounds(FromInt(0), FromInt(0), FromInt(20), FromInt(15)))

-----------------------------------------------------------------------------
(* ClosePath and the bounding box *)

\* the outline ends with " Z"
EndsWithClose(s) == Len(s) >= 2 /\ s[Len(s)] = "Z" /\ s[Len(s) - 1] = " "

\* the outline without its closing " Z"
WithoutClose(s) == SubSeq(s, 1, Len(s) - 2)

\* C26: a ClosePath command adds no point outside the bounding box of the
\* commands before it: the box get_svg_bounds returns for an outline followed
\* by Z, and the box visualize derives from the vertices of
\* svg_to_matplotlib_path for it, equal the boxes of the outline without the Z,
\* also for outlines that contain no MoveTo.
C26_CloseAddsNoExtremum ==
    EndsWithClose(svg_path) =>
        /\ IsSome(verified) =>
               Get(verified).bounds = get_svg_bounds(WithoutClose(svg_path))
        /\ IsSome(visualized) =>
               Get(visualized).bounds =
                   visualize(WithoutClose(svg_path), path_view_size).bounds

\* a closed outline from which both tools derived a box, the vertex list
\* ending with the closing vertex
C26_Witness ==
    /\ EndsWithClose(svg_path)
    /\ IsSome(verified) /\ IsSome(visualized) /\ IsSome(viz_state)
    /\ IsSome(Get(verified).bounds) /\ IsSome(Get(visualized).bounds)
    /\ Get(viz_state).codes[Len(Get(viz_state).codes)] = "CLOSEPOLY"
    /\ Len(Get(viz_state).vertices) >= 3

-----------------------------------------------------------------------------
(* the current point and the subpath start *)

\* the commands that move the subpath start: M with both operands
IsMoveTo(c) == c.cmd = "M" /\ Len(c.coords) >= 2

\* the point of the most recent MoveTo of a command list that has one
SubpathStart(cmds) ==
    <<SelectSeq(cmds, IsMoveTo)[Len(SelectSeq(cmds, IsMoveTo))].coords[1],
      SelectSeq(cmds, IsMoveTo)[Len(SelectSeq(cmds, IsMoveTo))].coords[2]>>

\* the command list has a MoveTo and ends with a ClosePath
ClosedAfterMove(cmds) ==
    /\ SelectSeq(cmds, IsMoveTo) # <<>>
    /\ cmds[Len(cmds)].cmd = "Z"

\* C27: after a ClosePath the current point equals the subpath start point,
\* the point of the most recent MoveTo, in every interpreter of the outline
\* (get_svg_bounds and svg_to_matplotlib_path), and the two interpreters agree
\* on the current point after the commands of every outline.
C27_CloseReturnsToStart ==
    /\ (IsSome(json_state) /\ IsSome(json_commands) /\ ClosedAfterMove(Get(json_commands))) =>
           Get(json_state).cur = SubpathStart(Get(json_commands))
    /\ (IsSome(viz_state) /\ IsSome(viz_commands) /\ ClosedAfterMove(Get(viz_commands))) =>
           Get(viz_state).cur = SubpathStart(Get(viz_commands))
    /\ (IsSome(json_state) /\ IsSome(viz_state)) =>
           Get(json_state).cur = Get(viz_state).cur

-----------------------------------------------------------------------------
(* the numbers transform_path writes *)

\* the operand under test has a whole part of 0..MaxWhole
MaxWhole == 6

Signs == {<<>>, <<"-">>}

\* fractions of no, one, two and three digits; the ties among them (.25, .75)
\* are values a float holds exactly
FractionTexts ==
    {<<>>, <<".", "0">>, <<".", "5">>, <<".", "3">>, <<".", "2", "5">>, <<".", "7", "5">>,
     <<".", "9", "6">>, <<".", "0", "4">>, <<".", "1", "2", "5">>}

DecimalOperands ==
    {s \o NatChars(w) \o f : s \in Signs, w \in 0..MaxWhole, f \in FractionTexts}

\* "H <x>" keeps its operand, "V <y>" writes em - y
DecimalPaths == {<<l, " ">> \o t : l \in {"H", "V"}, t \in DecimalOperands}

\* units per em of the tool's default
DefaultEm == 1000

FormatInit ==
    /\ path_d \in DecimalPaths
    /\ em = FromInt(DefaultEm)
    /\ flipped = None
    /\ reflipped = None
    /\ svg_bounds = Bounds(FromInt(0), FromInt(0), FromInt(0), FromInt(0))
    /\ view_size = FromInt(0)
    /\ transform = None
    /\ dotted_transform = None
    /\ flutter_transform = None
    /\ vertex = None
    /\ stroke_point = None
    /\ projected = None
    /\ PathIdle
    /\ GeomIdle

SpecFormat == FormatInit /\ [][FlipNext]_vars

\* an optional minus sign and digits, nothing else
IsBareInteger(tok) ==
    /\ tok # <<>> /\ tok # <<"-">>
    /\ \A k \in 1..Len(tok) : tok[k] \in Digits \/ (k = 1 /\ tok[k] = "-")

\* a bare integer, a point, one digit
HasOneDecimal(tok) ==
    /\ Len(tok) >= 3
    /\ tok[Len(tok) - 1] = "."
    /\ tok[Len(tok)] \in Digits
    /\ IsBareInteger(SubSeq(tok, 1, Len(tok) - 2))

\* the number the token denotes is within half a tenth of v
WithinHalfTenth(tok, v) ==
    /\ IsSome(ParseFloat(tok))
    /\ RLe(RSub(Get(ParseFloat(tok)), v), Rat(1, 20))
    /\ RLe(RSub(v, Get(ParseFloat(tok))), Rat(1, 20))

\* tok is how the value v is to be written
WritesValue(tok, v) ==
    IF v[2] = 1 THEN IsBareInteger(tok) /\ ParseFloat(tok) = Some(v)
    ELSE HasOneDecimal(tok) /\ WithinHalfTenth(tok, v)

\* the value a one-operand H or V command is to carry after the flip
FlippedScalar(c, units) == IF Upper(c.cmd) = "V" THEN RSub(units, c.nums[1]) ELSE c.nums[1]

\* the output is the one command of the input, its operand written as required
OperandWritten(before, after, units) ==
    /\ Len(Commands(before)) = 1 /\ Len(Commands(before)[1].nums) = 1
    /\ FindAll(after, 1) # <<>>
    /\ after = <<Commands(before)[1].cmd, " ">> \o FindAll(after, 1)[1].coords
    /\ WritesValue(FindAll(after, 1)[1].coords, FlippedScalar(Commands(before)[1], units))

\* C24: transform_path writes every numeric operand as a bare integer when
\* its value is exactly integral and otherwise with exactly one decimal place:
\* the output never has more than one fractional digit, and an integral value
\* never carries a ".0" suffix.
C24_OneDecimalOrInteger ==
    /\ IsSome(flipped) => OperandWritten(path_d, Get(flipped), em)
    /\ IsSome(reflipped) => OperandWritten(Get(flipped), Get(reflipped), em)

\* 2.96 is written "3.0", and the integral 3.0 read back is written "3"
C24_Witness ==
    /\ path_d = <<"H", " ", "2", ".", "9", "6">>
    /\ flipped = Some(<<"H", " ", "3", ".", "0">>)
    /\ reflipped = Some(<<"H", " ", "3">>)

-----------------------------------------------------------------------------
(* the stroke files: parse_point and the readers of PointsInfo.json *)

\* what a call gave: the value it returned (or Raised(kind))
Returned(v) == [returned |-> v]

\* str.split(sep) from position i on, part being the part read so far
RECURSIVE SplitAt(_, _, _, _)
SplitAt(s, sep, i, part) ==
    IF i > Len(s) THEN <<part>>
    ELSE IF s[i] = sep THEN <<part>> \o SplitAt(s, sep, i + 1, <<>>)
    ELSE SplitAt(s, sep, i + 1, Append(part, s[i]))

\* s.split(sep) for a separator of one character
StrSplit(s, sep) == SplitAt(s, sep, 1, <<>>)

\* s.strip()
Strip(s) ==
    SubSeq(s, SkipWhile(s, 1, WhiteSpace),
           CHOOSE j \in 0..Len(s) :
               /\ \A k \in (j + 1)..Len(s) : s[k] \in WhiteSpace
               /\ (j = 0 \/ s[j] \notin WhiteSpace))

\* "x, y = parts; return float(x.strip()), float(y.strip())", None for the
\* (None, None) of the except branch
PointOfParts(parts) ==
    IF Len(parts) # 2 THEN None
    ELSE IF ParseFloat(Strip(parts[1])) = None \/ ParseFloat(Strip(parts[2])) = None THEN None
    ELSE Some(<<Get(ParseFloat(Strip(parts[1]))), Get(ParseFloat(Strip(parts[2])))>>)

\* generate_dotted_path.py, visualize_points.py: parse_point.  The other two
\* tools read an entry by "x_norm, y_norm = map(float, point_str.split(','))"
\* in a try: float() strips the blanks itself, and the except branch is None.
parse_point(point_str) == PointOfParts(StrSplit(point_str, ","))

\* (x_norm * view_size, y_norm * view_size)
Scaled(p, size) == <<RMul(p[1], size), RMul(p[2], size)>>

\* ((prev_x + x) / 2, (prev_y + y) / 2)
Midpoint(a, b) ==
    <<RDiv(RAdd(a[1], b[1]), FromInt(2)), RDiv(RAdd(a[2], b[2]), FromInt(2))>>

\* f"{letter} {x:.1f} {y:.1f}"
PointCommand(letter, p) ==
    <<letter, " ">> \o FormatFixed1(p[1]) \o <<" ">> \o FormatFixed1(p[2])

\* f"Q {ctrl_x:.1f} {ctrl_y:.1f} {x:.1f} {y:.1f}"
CurveCommand(ctrl, p) ==
    <<"Q", " ">> \o FormatFixed1(ctrl[1]) \o <<" ">> \o FormatFixed1(ctrl[2])
        \o <<" ">> \o FormatFixed1(p[1]) \o <<" ">> \o FormatFixed1(p[2])

\* one iteration of points_to_svg_path's loop (i counts from 1) on
\* point = parse_point(point_str): what it appends to path_commands
PlainCommandOf(i, point, size) ==
    IF point = None THEN <<>>
    ELSE <<PointCommand(IF i = 1 THEN "M" ELSE "L", Scaled(Get(point), size))>>

RECURSIVE PlainCommands(_, _, _)
PlainCommands(points, i, size) ==
    IF i > Len(points) THEN <<>>
    ELSE PlainCommandOf(i, parse_point(points[i]), size)
             \o PlainCommands(points, i + 1, size)

\* generate_dotted_path.py: points_to_svg_path
points_to_svg_path(points, size) ==
    IF points = <<>> THEN Returned(<<>>)
    ELSE Returned(Join(PlainCommands(points, 1, size), <<" ">>))

\* one iteration of points_to_svg_path_smooth's loop (i counts from 1) on
\* point = parse_point(point_str) and prev = parse_point(points[i-1])
SmoothCommandOf(i, point, prev, size, curves) ==
    IF point = None THEN <<>>
    ELSE IF i = 1 THEN <<PointCommand("M", Scaled(Get(point), size))>>
    ELSE IF curves /\ prev # None
        THEN <<CurveCommand(Midpoint(Scaled(Get(prev), size), Scaled(Get(point), size)),
                            Scaled(Get(point), size))>>
    ELSE <<PointCommand("L", Scaled(Get(point), size))>>

\* the loop calls parse_point(points[i-1]) for i > 0 only
RECURSIVE SmoothCommands(_, _, _, _)
SmoothCommands(points, i, size, curves) ==
    IF i > Len(points) THEN <<>>
    ELSE SmoothCommandOf(i, parse_point(points[i]),
                         IF i > 1 THEN parse_point(points[i - 1]) ELSE None, size, curves)
             \o SmoothCommands(points, i + 1, size, curves)

\* "if len(points) < 2": the entry is not tested for (None, None), and
\* None * view_size raises TypeError
SinglePointPath(point, size) ==
    IF point = None THEN Raised("TypeError")
    ELSE Returned(PointCommand("M", Scaled(Get(point), size)))

\* generate_dotted_path.py: points_to_svg_path_smooth
points_to_svg_path_smooth(points, size, curves) ==
    IF points = <<>> THEN Returned(<<>>)
    ELSE IF Len(points) < 2 THEN SinglePointPath(parse_point(points[1]), size)
    ELSE Returned(Join(SmoothCommands(points, 1, size, curves), <<" ">>))

\* the separator of the path segments: a line break and eleven blanks
SegmentSeparator == <<"\n", " ", " ", " ", " ", " ", " ", " ", " ", " ", " ", " ">>

\* the stroke's path of generate_dotted_path_from_json
StrokePath(points, size, curves) ==
    IF curves THEN points_to_svg_path_smooth(points, size, TRUE)
    ELSE points_to_svg_path(points, size)

\* the loop of generate_dotted_path_from_json from stroke i on: path_segments,
\* or the exception of a stroke
\* "if stroke_path: path_segments.append(stroke_path)", then the later strokes
SegmentsWith(stroke_path, later) ==
    IF IsRaised(stroke_path) THEN stroke_path
    ELSE IF IsRaised(later) THEN later
    ELSE IF stroke_path.returned = <<>> THEN later
    ELSE Returned(<<stroke_path.returned>> \o later.returned)

RECURSIVE PathSegments(_, _, _, _)
PathSegments(strokes, i, size, curves) ==
    IF i > Len(strokes) THEN Returned(<<>>)
    ELSE IF strokes[i] = <<>> THEN PathSegments(strokes, i + 1, size, curves)
    ELSE SegmentsWith(StrokePath(strokes[i], size, curves),
                      PathSegments(strokes, i + 1, size, curves))

JoinedSegments(segments) ==
    IF IsRaised(segments) THEN segments
    ELSE Returned(Join(segments.returned, SegmentSeparator))

\* generate_dotted_path.py: generate_dotted_path_from_json on the decoded
\* document; the record form and the bare list give the same strokes
generate_dotted_path_from_json(data, size, curves) ==
    IF data.strokes = <<>> THEN Returned(<<>>)
    ELSE JoinedSegments(PathSegments(data.strokes, 1, size, curves))

\* stroke_points of the entries from position i on: "if x is not None and y
\* is not None: stroke_points.append((x, y))" adds the point or nothing, which
\* is what parse_point's Some(p) / None are as lists
RECURSIVE StrokePointsFrom(_, _)
StrokePointsFrom(points, i) ==
    IF i > Len(points) THEN <<>>
    ELSE parse_point(points[i]) \o StrokePointsFrom(points, i + 1)

\* a loop that puts each point in front of the ones read before
StrokePointsOf_reversed(points) ==
    [k \in 1..Len(StrokePointsFrom(points, 1)) |->
        StrokePointsFrom(points, 1)[Len(StrokePointsFrom(points, 1)) + 1 - k]]

\* load_points_from_json: stroke_points after "for point_str in points"
StrokePointsOf(points) == StrokePointsFrom(points, 1)

\* "if stroke_points: all_strokes.append(stroke_points)", from stroke i on
RECURSIVE LoadedStrokes(_, _)
LoadedStrokes(strokes, i) ==
    IF i > Len(strokes) THEN <<>>
    ELSE IF StrokePointsOf(strokes[i]) = <<>> THEN LoadedStrokes(strokes, i + 1)
    ELSE <<StrokePointsOf(strokes[i])>> \o LoadedStrokes(strokes, i + 1)

\* visualize_points.py: load_points_from_json on the decoded document
load_points_from_json(data) == Returned(LoadedStrokes(data.strokes, 1))

\* one iteration of "for point_str in points" of convert_json_to_svg_coords,
\* pair being the entry's numbers
SvgPointOf(pair, t, size) ==
    IF pair = None THEN <<>>
    ELSE <<reverse_transform_point(Get(pair)[1], Get(pair)[2], t, size)>>

RECURSIVE SvgPointsFrom(_, _, _, _)
SvgPointsFrom(points, i, t, size) ==
    IF i > Len(points) THEN <<>>
    ELSE SvgPointOf(parse_point(points[i]), t, size) \o SvgPointsFrom(points, i + 1, t, size)

\* "if svg_points: svg_strokes.append(svg_points)", from stroke i on
KeptStroke(svg_points) == IF svg_points = <<>> THEN <<>> ELSE <<svg_points>>

RECURSIVE SvgStrokesFrom(_, _, _, _)
SvgStrokesFrom(strokes, i, t, size) ==
    IF i > Len(strokes) THEN <<>>
    ELSE KeptStroke(SvgPointsFrom(strokes[i], 1, t, size))
             \o SvgStrokesFrom(strokes, i + 1, t, size)

\* convert_json_to_svg_coords after the transform: a bare list has no .get
\* (AttributeError)
ConvertStrokes(data, run, size) ==
    IF run.raised # "" THEN Raised(run.raised)
    ELSE IF data.form = "list" THEN Raised("AttributeError")
    ELSE Returned(SvgStrokesFrom(data.strokes, 1, Get(run.transform), size))

\* fix_dotted_path_alignment.py: convert_json_to_svg_coords, with its strokes
convert_json_strokes(data, path, size) ==
    ConvertStrokes(data, convert_json_to_svg_coords(path, size), size)

\* one iteration of "for i, (x, y) in enumerate(stroke)" (i counts from 1)
SvgCommandAt(stroke, i, curves) ==
    IF i = 1 THEN PointCommand("M", stroke[i])
    ELSE IF curves THEN
        IF i = 2 THEN CurveCommand(stroke[i - 1], stroke[i])
        ELSE CurveCommand(Midpoint(stroke[i - 1], stroke[i]), stroke[i])
    ELSE PointCommand("L", stroke[i])

\* "if not stroke: continue"
HasPoints(stroke) == stroke # <<>>

\* ' '.join(commands) of one stroke
SvgSegment(stroke, curves) ==
    Join([i \in 1..Len(stroke) |-> SvgCommandAt(stroke, i, curves)], <<" ">>)

\* fix_dotted_path_alignment.py: generate_dotted_path_from_svg_coords
generate_dotted_path_from_svg_coords(strokes, curves) ==
    Join([k \in 1..Len(SelectSeq(strokes, HasPoints)) |->
             SvgSegment(SelectSeq(strokes, HasPoints)[k], curves)],
         SegmentSeparator)

\* main of fix_dotted_path_alignment.py after convert_json_to_svg_coords:
\* "if not svg_strokes: sys.exit(1)", else the dotted path with curves
DottedPathOf(converted_strokes) ==
    IF IsRaised(converted_strokes) THEN None
    ELSE IF converted_strokes.returned = <<>> THEN None
    ELSE Some(generate_dotted_path_from_svg_coords(converted_strokes.returned, TRUE))

\* one iteration of verify_alignment's loop on pair, the numbers of the
\* stroke's first entry: the first point in outline space, None for "No
\* points" and "Invalid first point format"
FirstPointOf(points, pair, t, size) ==
    IF points = <<>> \/ pair = None THEN None
    ELSE Some(<<RDiv(RSub(RMul(Get(pair)[1], size), t.translate_x), t.scale),
                RDiv(RSub(RMul(Get(pair)[2], size), t.translate_y), t.scale)>>)

\* verify_alignment from "strokes = json_data.get('strokes', [])" on: a bare
\* list has no .get (AttributeError)
VerifyStrokesWith(data, run, size) ==
    IF data.form = "list" THEN Raised("AttributeError")
    ELSE IF data.strokes = <<>> THEN Returned(<<>>)   \* "Error: No strokes found in JSON"
    ELSE IF run.raised # "" THEN Raised(run.raised)
    ELSE IF run.transform = None THEN Returned(<<>>)  \* "Error: Could not calculate SVG bounds"
    ELSE Returned([k \in 1..Len(data.strokes) |->
                      FirstPointOf(data.strokes[k],
                                   IF data.strokes[k] = <<>> THEN None
                                   ELSE parse_point(data.strokes[k][1]),
                                   Get(run.transform), size)])

\* fix_json_alignment.py: verify_alignment, with its strokes
VerifyStrokes(data, path, size) == VerifyStrokesWith(data, verify_alignment(path, size), size)

-----------------------------------------------------------------------------
(* the stroke tools on one PointsInfo.json *)

\* a stroke of the file has 0..MaxPoints point entries
MaxPoints == 3

HalfThird == <<"0", ".", "5", ",", "0", ".", "3">>
QuarterThreeQuarters == <<"0", ".", "2", "5", ",", " ", "0", ".", "7", "5">>
NotAPoint == <<"a", "b", "c">>

\* two well-formed entries and a malformed one
EntryPool == {HalfThird, QuarterThreeQuarters, NotAPoint}

PoolStrokes == UNION {[1..n -> EntryPool] : n \in 0..MaxPoints}

SecondStrokes == {<<QuarterThreeQuarters, HalfThird>>, <<NotAPoint>>}

\* strokes with the other kinds of malformed entries: three numbers, a missing
\* number, an empty entry, a number that is none
WrittenStrokes ==
    {<<<<"0", ".", "1", ",", "0", ".", "2", ",", "0", ".", "3">>, HalfThird>>,
     <<HalfThird, <<"0", ".", "5", ",">>, QuarterThreeQuarters>>,
     <<<<>>, HalfThird, <<",">>>>,
     <<<<"1", "e", ",", "2">>, <<" ", "1", " ", ",", "0", " ">>>>}

\* files with a stroke of no entries
WrittenStrokeLists ==
    {<<<<>>>>, <<<<>>, <<HalfThird, QuarterThreeQuarters>>>>, <<<<HalfThird>>, <<>>, <<NotAPoint, HalfThird>>>>}

StrokeLists ==
    {<<>>} \cup WrittenStrokeLists \cup {<<s>> : s \in PoolStrokes \cup WrittenStrokes}
           \cup {<<s, t>> : s \in PoolStrokes, t \in SecondStrokes}

\* {"strokes": [{"points": [...]}, ...]} and the bare [[...], ...]
StrokeFiles == {[form |-> f, strokes |-> l] : f \in {"record", "list"}, l \in StrokeLists}

\* view_size = 1000.0, the default of generate_dotted_path.py
StrokeViewSize == 1000

\* the letter's outline given to the tools that take one: a square of side 100
LetterPath == Scenario2Path

StrokeInit ==
    /\ json_data \in StrokeFiles
    /\ stroke_view_size = FromInt(StrokeViewSize)
    /\ use_curves \in BOOLEAN
    /\ all_strokes = None
    /\ dotted_path = None
    /\ svg_strokes = None
    /\ svg_dotted_path = None
    /\ first_points = None
    /\ FitIdle /\ FlipIdle /\ PathIdle /\ SampleIdle /\ GrowIdle

\* visualize_points.py, visualize: strokes = load_points_from_json(json_path)
LoadPointsFromJson ==
    /\ all_strokes = None
    /\ all_strokes' = Some(load_points_from_json(json_data))
    /\ UNCHANGED <<json_data, stroke_view_size, use_curves, dotted_path, svg_strokes,
                   svg_dotted_path, first_points>>
    /\ UNCHANGED <<fitVars, flipVars, pathVars, sampleVars, growVars>>

\* python3 generate_dotted_path.py <json> [viewSize] [--lines]
GenerateDottedPathFromJson ==
    /\ dotted_path = None
    /\ dotted_path' = Some(generate_dotted_path_from_json(json_data, stroke_view_size, use_curves))
    /\ UNCHANGED <<json_data, stroke_view_size, use_curves, all_strokes, svg_strokes,
                   svg_dotted_path, first_points>>
    /\ UNCHANGED <<fitVars, flipVars, pathVars, sampleVars, growVars>>

\* python3 fix_dotted_path_alignment.py <json> <path> [viewSize]
FixDottedPathAlignment ==
    /\ svg_strokes = None
    /\ svg_strokes' = Some(convert_json_strokes(json_data, LetterPath, stroke_view_size))
    /\ svg_dotted_path' = DottedPathOf(Get(svg_strokes'))
    /\ UNCHANGED <<json_data, stroke_view_size, use_curves, all_strokes, dotted_path,
                   first_points>>
    /\ UNCHANGED <<fitVars, flipVars, pathVars, sampleVars, growVars>>

\* python3 fix_json_alignment.py <json> <path> [viewSize]
VerifyFirstPoints ==
    /\ first_points = None
    /\ first_points' = Some(VerifyStrokes(json_data, LetterPath, stroke_view_size))
    /\ UNCHANGED <<json_data, stroke_view_size, use_curves, all_strokes, dotted_path,
                   svg_strokes, svg_dotted_path>>
    /\ UNCHANGED <<fitVars, flipVars, pathVars, sampleVars, growVars>>

StrokeNext ==
    \/ LoadPointsFromJson
    \/ GenerateDottedPathFromJson
    \/ FixDottedPathAlignment
    \/ VerifyFirstPoints

SpecStroke == StrokeInit /\ [][StrokeNext]_vars

-----------------------------------------------------------------------------
(* claims about the stroke tools, checked under SpecStroke *)

PaddedOneZero == <<" ", "1", " ", ",", "0", " ">>

\* the well-formed entries of the input files and the points they denote
EntryValue(e) ==
    CASE e = HalfThird -> Some(<<Rat(1, 2), Rat(3, 10)>>)
      [] e = QuarterThreeQuarters -> Some(<<Rat(1, 4), Rat(3, 4)>>)
      [] e = PaddedOneZero -> Some(<<FromInt(1), FromInt(0)>>)
      [] OTHER -> None

\* the points of the well-formed entries of a stroke from position i on, in
\* the order of the entries
RECURSIVE WellFormedFrom(_, _)
WellFormedFrom(stroke, i) ==
    IF i > Len(stroke) THEN <<>>
    ELSE EntryValue(stroke[i]) \o WellFormedFrom(stroke, i + 1)

WellFormedPoints(stroke) == WellFormedFrom(stroke, 1)

\* the strokes that have a well-formed entry, in order, each with its points
RECURSIVE DecodedFrom(_, _)
DecodedFrom(strokes, i) ==
    IF i > Len(strokes) THEN <<>>
    ELSE IF WellFormedPoints(strokes[i]) = <<>> THEN DecodedFrom(strokes, i + 1)
    ELSE <<WellFormedPoints(strokes[i])>> \o DecodedFrom(strokes, i + 1)

DecodedStrokes == DecodedFrom(json_data.strokes, 1)

\* a normalized point in the space of LetterPath, a square of side 100 at the
\* origin that fills the view
OnLetter(p) == <<RMul(p[1], FromInt(100)), RMul(p[2], FromInt(100))>>

ProjectedStrokes ==
    [k \in 1..Len(DecodedStrokes) |->
        [j \in 1..Len(DecodedStrokes[k]) |-> OnLetter(DecodedStrokes[k][j])]]

\* the number of path commands in a text
CommandCount(text) == Cardinality({k \in 1..Len(text) : text[k] \in {"M", "L", "Q"}})

\* the number of well-formed entries of strokes i..
RECURSIVE WellFormedCount(_, _)
WellFormedCount(strokes, i) ==
    IF i > Len(strokes) THEN 0
    ELSE Len(WellFormedPoints(strokes[i])) + WellFormedCount(strokes, i + 1)

\* C21: stroke decoding skips each malformed point entry and keeps every
\* well-formed entry of the same stroke, without raising, in
\* load_points_from_json, convert_json_to_svg_coords (record form),
\* points_to_svg_path and points_to_svg_path_smooth, also for a stroke whose
\* only entry or whose first entry is malformed.
C21_MalformedEntriesSkipped ==
    /\ IsSome(all_strokes) =>
           /\ ~IsRaised(Get(all_strokes))
           /\ Get(all_strokes).returned = DecodedStrokes
    /\ (IsSome(svg_strokes) /\ json_data.form = "record") =>
           /\ ~IsRaised(Get(svg_strokes))
           /\ Get(svg_strokes).returned = ProjectedStrokes
    /\ IsSome(dotted_path) =>
           /\ ~IsRaised(Get(dotted_path))
           /\ CommandCount(Get(dotted_path).returned) = WellFormedCount(json_data.strokes, 1)

\* the same document in the record form {"strokes": [{"points": [...]}]}
RecordForm(data) == [form |-> "record", strokes |-> data.strokes]

\* C22: the bare list-of-lists encoding decodes to the same strokes as the
\* record form with the same point entries in every tool that reads stroke
\* data (load_points_from_json, generate_dotted_path_from_json,
\* convert_json_to_svg_coords, verify_alignment), and no reader fails on it.
C22_ListFormDecodesAlike ==
    json_data.form = "list" =>
        /\ IsSome(all_strokes) =>
               Get(all_strokes) = load_points_from_json(RecordForm(json_data))
        /\ IsSome(dotted_path) =>
               Get(dotted_path) =
                   generate_dotted_path_from_json(RecordForm(json_data), stroke_view_size,
                                                  use_curves)
        /\ IsSome(svg_strokes) =>
               /\ ~IsRaised(Get(svg_strokes))
               /\ Get(svg_strokes) =
                      convert_json_strokes(RecordForm(json_data), LetterPath, stroke_view_size)
        /\ IsSome(first_points) =>
               /\ ~IsRaised(Get(first_points))
               /\ Get(first_points) =
                      VerifyStrokes(RecordForm(json_data), LetterPath, stroke_view_size)

\* the strokes a reader returned are the decoded strokes of the file
OrderKept ==
    /\ (IsSome(all_strokes) /\ ~IsRaised(Get(all_strokes))) =>
           Get(all_strokes).returned = DecodedStrokes
    /\ (IsSome(svg_strokes) /\ ~IsRaised(Get(svg_strokes))) =>
           Get(svg_strokes).returned = ProjectedStrokes

\* C23: decoding and projecting strokes preserves order: the output strokes
\* are the input strokes in their order, and the points of each the stroke's
\* well-formed entries in their order (malformed entries and empty strokes
\* removed, nothing reordered, duplicated or moved between strokes), and no
\* tool modifies the input data.
C23_StrokeOrderKept == []OrderKept /\ [][json_data' = json_data]_vars

\* two strokes, the first with a malformed entry before two well-formed ones,
\* the second malformed altogether, read by both tools
C23_Witness ==
    /\ json_data = [form |-> "record",
                    strokes |-> <<<<NotAPoint, HalfThird, QuarterThreeQuarters>>, <<NotAPoint>>>>]
    /\ all_strokes = Some(Returned(<<<< <<Rat(1, 2), Rat(3, 10)>>, <<Rat(1, 4), Rat(3, 4)>> >>>>))
    /\ svg_strokes = Some(Returned(<<<< <<FromInt(50), FromInt(30)>>, <<FromInt(25), FromInt(75)>> >>>>))

\* s without its leading blanks
LStrip(s) == SubSeq(s, SkipWhile(s, 1, {" "}), Len(s))

\* the path segments of a dotted path: its lines
Segments(text) ==
    IF text = <<>> THEN <<>>
    ELSE [k \in 1..Len(StrSplit(text, "\n")) |-> LStrip(StrSplit(text, "\n")[k])]

\* the segment starts with its only M and has one command for each point
IsStrokeSegment(segment, points) ==
    /\ segment # <<>>
    /\ segment[1] = "M"
    /\ Cardinality({k \in 1..Len(segment) : segment[k] = "M"}) = 1
    /\ CommandCount(segment) = Len(points)

\* one segment for each stroke with a valid point, in order
SegmentPerStroke(text) ==
    /\ Len(Segments(text)) = Len(DecodedStrokes)
    /\ \A k \in 1..Len(Segments(text)) : IsStrokeSegment(Segments(text)[k], DecodedStrokes[k])

\* C28: every non-empty stroke segment emitted by the dotted-path generators
\* (points_to_svg_path, points_to_svg_path_smooth,
\* generate_dotted_path_from_svg_coords) starts with exactly one M command
\* and contains no other M, with one command per valid point, also for a
\* stroke whose first point entry is malformed.
C28_SegmentStartsWithMove ==
    /\ (IsSome(dotted_path) /\ ~IsRaised(Get(dotted_path))) =>
           SegmentPerStroke(Get(dotted_path).returned)
    /\ IsSome(svg_dotted_path) => SegmentPerStroke(Get(svg_dotted_path))

=============================================================================
